---- MODULE Spec2Model ----
(***************************************************************************)
(* State-machine model of the session layer of webos-devtools-mcp:         *)
(* PageSession (connection cache, log buffer), ConsoleStreamManager and    *)
(* OverlayManager.  Execution is single-threaded and cooperative: every    *)
(* action below is the synchronous run of one task between two awaits of   *)
(* a protocol round trip (or the arrival of one pushed event).             *)
(***************************************************************************)
EXTENDS Integers, Sequences, FiniteSets, TLC

\* ------------------------------------------------------------------ bounds
MaxConn == 2            \* connection attempts (CDP() calls) in one run
NumCallers == 3         \* concurrent callers of connect/evaluate/captureScreenshot
NumConsoleTasks == 2    \* concurrent subscribe()/unsubscribe() calls
SessionEventBound == 2  \* pushed log events between two buffer resets (SpecSession)
VaryLen == 2            \* leading events of a burst whose kind is free (SpecLog)
OverCap == 3            \* events recorded beyond the buffer cap (SpecLog)
NumOverlayTasks == 2    \* overlay calls and timer callbacks in progress at once
MaxTimers == 2          \* auto-hide timers pending at once
NumNetTasks == 2        \* concurrent start()/getResponseBody()/getRequestPostData() calls

\* -------------------------------------------------------- program constants
MAX_BUFFERED_ENTRIES == 500
DEFAULT_DURATION_MS == 2 * 60 * 1000

Conns == 1..MaxConn
Callers == 1..NumCallers
ConsoleTasks == 1..NumConsoleTasks
OverlayTasks == 1..NumOverlayTasks
NetTasks == 1..NumNetTasks
TimerIds == 1..MaxTimers
Nodes == {1, 2}         \* node ids of the page's elements; 0 is "no node"
NoClient == 0
LogKinds == {"console", "exception", "log"}
LogEventBound == MAX_BUFFERED_ENTRIES + OverCap

VARIABLES
  \* PageSession fields
  client,         \* #client: NoClient or the connection held
  clientPromise,  \* #clientPromise: NoClient or the attempt whose promise is cached
  entries,        \* #entries
  nextId,         \* #nextId
  \* the connection attempts (#connectInternal runs) and their connections
  attempt,        \* attempt[a]: position of run a of #connectInternal
  conn,           \* conn[c]: "none" | "open" | "lost" (disconnect event) | "closed" (close())
  handlers,       \* handlers[c]: #registerEventHandlers has run on c
  \* callers of connect / evaluate / captureScreenshot
  cpc,            \* position of each caller
  cop,            \* the operation it runs
  cwait,          \* the attempt whose promise it awaits (kept until the call returns)
  cres,           \* the client #ensureClient returned to it (kept until the call returns)
  \* dispose() task
  dpc, dcl,
  dOut,           \* output of the step just taken: how a dispose() call ended in it
  \* ConsoleStreamManager fields
  cmClient,           \* #client
  subscription,       \* #subscription: <<>> or <<normalized options>>
  consoleListener,    \* #consoleListener: NoClient, or the client that closure was attached to
  exceptionListener,  \* #exceptionListener, likewise
  \* the listeners the manager has registered on each connection
  attachedC, attachedE,
  \* subscribe() / unsubscribe() calls
  tpc, topt, tcl, twait,
  \* outputs of the step just taken: the console/exception event it delivered to
  \* the manager's listeners, the notifications they sent, and how a
  \* subscribe()/unsubscribe() call that returned in it ended
  lastEv, sent, cmOutcome,
  \* OverlayManager fields and the timers it has armed
  ovClient,           \* #client
  timer,              \* #timer: 0 or the handle it holds
  timers,             \* the armed timers that have neither fired nor been cleared
  decoratedNodes,     \* #decoratedNodes
  \* the page: the node shown by the remote overlay (0: none) and the nodes that
  \* carry the focus ring
  rHighlight, rings,
  \* highlight() calls and timer callbacks in progress
  opc, okind, oin, owait, ocl, orest,
  oarm,               \* the timer a highlight() call in progress has armed (0: none yet)
  ofoc,               \* where a highlightFocused() call stands around its highlight() call
  oq,                 \* the overlay's commands in flight, in the order they were sent:
                      \* <<task, node>>, node 0 for a command outside #restoreDecorations
  ovOut,              \* output of the step just taken: the overlay call that returned in it
  hlCount,            \* highlight() calls that returned normally in a row, up to 2
  hideCount,          \* hide() calls that returned in a row, up to 2
  ofail,              \* "failed": the overlay call that ended last is a highlight() that
                      \* raised; "following": the first call begun since; else "no"
  \* NetworkRecorder fields
  nrClient,           \* #client
  capturing,          \* #capturing
  requests,           \* #requests: a function from the request ids recorded to their records
  order,              \* #order
  nrAttached,         \* #attached
  attachedN,          \* attachedN[c]: sets of lifecycle listeners the recorder has put on c
  netOn,              \* netOn[c]: Network.enable has succeeded on c
  \* start() / getResponseBody() / getRequestPostData() calls
  npc, nkind, nwait, ncl,
  nbase,              \* the number of records when the start() call was made
  netEv,              \* output of the step just taken: the lifecycle event the recorder
                      \* handled in it, or the recorder call that ended in it
  lastOf,             \* lastOf[id][kind]: the latest event of that kind merged into
                      \* the record of id (0: none), a history of the record
  \* history (not program state)
  hist,           \* entries recorded since the buffer was last reset, with their ids
  epochLast,      \* epochLast[c]: id of the latest entry recorded from c while c is open
  everReset,      \* a dispose() or a disconnect event has happened
  afterClear,     \* "no" | "cleared" | "recorded": progress since the last clearEntries()
  prevLen,        \* buffer length at that clearEntries()
  subsDone        \* subscribe() calls completed since the last unsubscribe(), up to 2

sessionVars == <<client, clientPromise, attempt, conn, handlers>>
logVars == <<entries, nextId, hist, epochLast, afterClear, prevLen>>
callerVars == <<cpc, cop, cwait, cres>>
disposeVars == <<dpc, dcl>>
consoleVars == <<cmClient, subscription, consoleListener, exceptionListener,
                 attachedC, attachedE, tpc, topt, tcl, twait, subsDone>>
outVars == <<lastEv, sent, cmOutcome>>
netVars == <<nrClient, capturing, requests, order, nrAttached, attachedN, netOn,
             npc, nkind, nwait, ncl, nbase, lastOf>>
overlayVars == <<ovClient, timer, timers, decoratedNodes, rHighlight, rings,
                 opc, okind, oin, owait, ocl, orest, oarm, ofoc, oq, hlCount, hideCount,
                 ofail>>

vars == <<client, clientPromise, entries, nextId, attempt, conn, handlers,
          cpc, cop, cwait, cres, dpc, dcl, dOut,
          hist, epochLast, everReset, afterClear, prevLen,
          cmClient, subscription, consoleListener, exceptionListener,
          attachedC, attachedE, tpc, topt, tcl, twait, lastEv, sent,
          subsDone, cmOutcome,
          ovClient, timer, timers, decoratedNodes, rHighlight, rings,
          opc, okind, oin, owait, ocl, orest, oarm, ofoc, oq, ovOut, hlCount, ofail,
          hideCount,
          nrClient, capturing, requests, order, nrAttached, attachedN, netOn,
          npc, nkind, nwait, ncl, nbase, netEv, lastOf>>

NoEvent == [kind |-> "none"]

\* a step that delivers no event to the manager and sends no notification
Quiet == lastEv' = NoEvent /\ sent' = <<>> /\ dOut' = NoEvent

\* a step in which no subscribe()/unsubscribe() call and no overlay call returns
\* either, and the recorder neither handles an event nor ends a call
Silent == Quiet /\ cmOutcome' = "none" /\ ovOut' = NoEvent /\ netEv' = NoEvent

\* ------------------------------------------------------------ PageSession
Pending(a) == attempt[a] \in {"cdp", "runtime_enable", "page_enable",
                              "console_enable", "log_enable", "run_waiting"}

FreeAttempts == {a \in Conns : attempt[a] = "unused"}
NewAttempt == CHOOSE a \in FreeAttempts : \A b \in FreeAttempts : a <= b

\* A command in flight on a connection that has gone is failed by the protocol
\* library at once, and so is a command issued on it afterwards: the tasks
\* awaiting such a command run on before the process takes its next external
\* event (a new call, a message, a timer).  So does a highlight() whose
\* `await this.hide()` has returned.  Draining says such a task exists.
CommandPcs == {"evaluate", "bringToFront", "capture"}

Draining ==
  \/ \E a \in Conns : Pending(a) /\ conn[a] \in {"lost", "closed"}
  \/ \E p \in Callers : cpc[p] \in CommandPcs /\ conn[cres[p]] \in {"lost", "closed"}
  \/ \E t \in ConsoleTasks : tpc[t] = "sub_enable" /\ conn[tcl[t]] \in {"lost", "closed"}
  \/ \E t \in OverlayTasks : opc[t] = "hidden"
  \/ \E t \in NetTasks : npc[t] = "n_command" /\ conn[ncl[t]] \in {"lost", "closed"}

Quiescent == ~Draining

\* mutants of #recordEntry
RecordEntryKeepOldest(buf, nid, kind) ==
  LET pushed == Append(buf, [id |-> nid, kind |-> kind])
  IN [entries |-> IF Len(pushed) > MAX_BUFFERED_ENTRIES
                    THEN SubSeq(pushed, 1, MAX_BUFFERED_ENTRIES)
                    ELSE pushed,
      nextId |-> nid + 1]

RecordEntryNoSplice(buf, nid, kind) ==
  [entries |-> Append(buf, [id |-> nid, kind |-> kind]), nextId |-> nid + 1]

RecordEntryNoIncrement(buf, nid, kind) ==
  LET pushed == Append(buf, [id |-> nid, kind |-> kind])
      over == Len(pushed) - MAX_BUFFERED_ENTRIES
  IN [entries |-> IF Len(pushed) > MAX_BUFFERED_ENTRIES
                    THEN SubSeq(pushed, over + 1, Len(pushed))
                    ELSE pushed,
      nextId |-> nid]

\* #recordEntry: stamp the entry with nextId++, push, splice the overflow off the front
RecordEntry(buf, nid, kind) ==
  LET pushed == Append(buf, [id |-> nid, kind |-> kind])
      over == Len(pushed) - MAX_BUFFERED_ENTRIES
  IN [entries |-> IF Len(pushed) > MAX_BUFFERED_ENTRIES
                    THEN SubSeq(pushed, over + 1, Len(pushed))
                    ELSE pushed,
      nextId |-> nid + 1]

RECURSIVE FilterKinds(_, _)
FilterKinds(buf, kinds) ==
  IF buf = <<>> THEN <<>>
  ELSE IF \E i \in 1..Len(kinds) : kinds[i] = Head(buf).kind
         THEN <<Head(buf)>> \o FilterKinds(Tail(buf), kinds)
         ELSE FilterKinds(Tail(buf), kinds)

Reverse(s) == [i \in 1..Len(s) |-> s[Len(s) + 1 - i]]

Max(a, b) == IF a >= b THEN a ELSE b

\* mutant of getEntries: the slice keeps the oldest `limit` entries
GetEntriesOldest(buf, params) ==
  LET limit == IF params.hasLimit THEN params.limit ELSE 20
      newestFirst == IF params.hasNewest THEN params.newestFirst ELSE TRUE
      subset == IF params.hasKinds /\ Len(params.kinds) > 0
                  THEN FilterKinds(buf, params.kinds)
                  ELSE buf
      slice == SubSeq(subset, 1, IF limit < Len(subset) THEN limit ELSE Len(subset))
  IN IF newestFirst THEN Reverse(slice) ELSE slice

\* getEntries: params is a record; an absent field is modelled by has* = FALSE
GetEntries(buf, params) ==
  LET limit == IF params.hasLimit THEN params.limit ELSE 20
      newestFirst == IF params.hasNewest THEN params.newestFirst ELSE TRUE
      subset == IF params.hasKinds /\ Len(params.kinds) > 0
                  THEN FilterKinds(buf, params.kinds)
                  ELSE buf
      start == Max(0, Len(subset) - limit)
      slice == SubSeq(subset, start + 1, Len(subset))
  IN IF newestFirst THEN Reverse(slice) ELSE slice

\* mutant of the test `!this.#clientPromise`: no attempt is ever shared
NoCachedAttemptAlways == TRUE

\* #ensureClient: `!this.#clientPromise`
NoCachedAttempt == clientPromise = NoClient

\* what a caller does once #ensureClient has returned
AfterEnsure(op) == CASE op = "connect" -> "idle"
                     [] op = "evaluate" -> "evaluate"
                     [] op = "captureScreenshot" -> "bringToFront"

\* #ensureClient, as far as its await: "client" when it returns the cached client at
\* once, "throws" when the cached promise has already rejected, "awaits" otherwise
EnsureOutcome ==
  IF client # NoClient THEN "client"
  ELSE IF ~NoCachedAttempt /\ attempt[clientPromise] = "rejected" THEN "throws"
  ELSE "awaits"

\* the attempt whose promise #ensureClient awaits
EnsureTarget == IF NoCachedAttempt THEN NewAttempt ELSE clientPromise

EnsureEnabled == client # NoClient \/ ~NoCachedAttempt \/ FreeAttempts # {}

\* `if (!this.#clientPromise) this.#clientPromise = this.#connectInternal()`
EnsureEffect ==
  IF client # NoClient
    THEN UNCHANGED <<clientPromise, attempt>>
    ELSE /\ clientPromise' = EnsureTarget
         /\ attempt' = IF NoCachedAttempt
                         THEN [attempt EXCEPT ![EnsureTarget] = "cdp"]
                         ELSE attempt

\* connect() / evaluate() / captureScreenshot() up to their first round trip
CallStart(p, op) ==
  /\ Quiescent
  /\ cpc[p] = "idle"
  /\ EnsureEnabled
  /\ EnsureEffect
  /\ CASE EnsureOutcome = "client" ->
            /\ cpc' = [cpc EXCEPT ![p] = AfterEnsure(op)]
            /\ cop' = [cop EXCEPT ![p] = IF op = "connect" THEN "none" ELSE op]
            /\ cres' = [cres EXCEPT ![p] = IF op = "connect" THEN NoClient ELSE client]
            /\ UNCHANGED cwait
       [] EnsureOutcome = "throws" ->
            UNCHANGED <<cpc, cop, cwait, cres>>
       [] EnsureOutcome = "awaits" ->
            /\ cpc' = [cpc EXCEPT ![p] = "await"]
            /\ cop' = [cop EXCEPT ![p] = op]
            /\ cwait' = [cwait EXCEPT ![p] = EnsureTarget]
            /\ UNCHANGED cres
  /\ Silent
  /\ UNCHANGED <<client, conn, handlers, logVars, disposeVars, everReset, consoleVars,
                 overlayVars, netVars>>

Awaiters(a) == {p \in Callers : cpc[p] = "await" /\ cwait[p] = a}

\* tasks of the console stream manager awaiting session.getClient()
ConsoleAwaiters(a) == {t \in ConsoleTasks : tpc[t] \in {"sub_client", "unsub_client"} /\ twait[t] = a}
UnsubAwaiters(a) == {t \in ConsoleAwaiters(a) : tpc[t] = "unsub_client"}

\* removeListener(client, event, handler): CDP.Client is an EventEmitter, so
\* off() exists; it drops the handler if it is registered on that client
RemoveListener(attached, cl, at) ==
  IF at = cl /\ attached[cl] > 0 THEN [attached EXCEPT ![cl] = @ - 1] ELSE attached

\* mutant of unsubscribe(): the exception listener is left attached
UnsubscribeRestKeepsException(cl) ==
  /\ attachedC' = IF consoleListener # NoClient
                    THEN RemoveListener(attachedC, cl, consoleListener) ELSE attachedC
  /\ consoleListener' = NoClient
  /\ UNCHANGED <<attachedE, exceptionListener>>
  /\ subscription' = <<>>
  /\ subsDone' = 0

\* unsubscribe() from the point where it has its client
UnsubscribeRest(cl) ==
  /\ attachedC' = IF consoleListener # NoClient
                    THEN RemoveListener(attachedC, cl, consoleListener) ELSE attachedC
  /\ consoleListener' = NoClient
  /\ attachedE' = IF exceptionListener # NoClient
                    THEN RemoveListener(attachedE, cl, exceptionListener) ELSE attachedE
  /\ exceptionListener' = NoClient
  /\ subscription' = <<>>
  /\ subsDone' = 0

\* the console tasks awaiting attempt a go on with its client
ResumeConsole(a) ==
  /\ tpc' = [t \in ConsoleTasks |->
               IF t \in ConsoleAwaiters(a)
                 THEN (IF tpc[t] = "sub_client" THEN "sub_enable" ELSE "idle")
                 ELSE tpc[t]]
  /\ tcl' = [t \in ConsoleTasks |->
               IF t \in ConsoleAwaiters(a) /\ tpc[t] = "sub_client" THEN a ELSE tcl[t]]
  /\ twait' = [t \in ConsoleTasks |-> IF t \in ConsoleAwaiters(a) THEN NoClient ELSE twait[t]]
  /\ IF UnsubAwaiters(a) # {}
       THEN /\ UnsubscribeRest(a)
            /\ cmOutcome' = "unsub_ok"
       ELSE /\ cmOutcome' = "none"
            /\ UNCHANGED <<attachedC, attachedE, consoleListener, exceptionListener,
                           subscription, subsDone>>
  /\ Quiet
  /\ UNCHANGED <<topt, cmClient>>

\* the await of session.getClient() throws in the console tasks awaiting attempt a
FailConsole(a) ==
  /\ tpc' = [t \in ConsoleTasks |-> IF t \in ConsoleAwaiters(a) THEN "idle" ELSE tpc[t]]
  /\ twait' = [t \in ConsoleTasks |-> IF t \in ConsoleAwaiters(a) THEN NoClient ELSE twait[t]]
  /\ topt' = [t \in ConsoleTasks |-> IF t \in ConsoleAwaiters(a) THEN 0 ELSE topt[t]]
  /\ cmOutcome' = IF UnsubAwaiters(a) # {}
                    THEN (IF subscription = <<>> THEN "unsub_error_inactive" ELSE "unsub_error")
                    ELSE IF ConsoleAwaiters(a) # {} THEN "sub_error" ELSE "none"
  /\ Quiet
  /\ UNCHANGED <<tcl, cmClient, subscription, consoleListener, exceptionListener,
                 attachedC, attachedE, subsDone>>

RECURSIVE Ascending(_)
Ascending(S) ==
  IF S = {} THEN <<>>
  ELSE LET m == CHOOSE x \in S : \A y \in S : x <= y
       IN <<m>> \o Ascending(S \ {m})

\* the commands are answered in the order they were sent
Sent(t, ns) == [i \in 1..Len(ns) |-> <<t, ns[i]>>]

\* tasks of the overlay manager awaiting session.getClient() in #getClient
OverlayAwaiters(a) == {t \in OverlayTasks : opc[t] = "getClient" /\ owait[t] = a}

\* they go on with `await client.Overlay.enable()`
ResumeOverlay(a) ==
  /\ opc' = [t \in OverlayTasks |-> IF t \in OverlayAwaiters(a) THEN "overlayEnable" ELSE opc[t]]
  /\ ocl' = [t \in OverlayTasks |-> IF t \in OverlayAwaiters(a) THEN a ELSE ocl[t]]
  /\ owait' = [t \in OverlayTasks |-> IF t \in OverlayAwaiters(a) THEN NoClient ELSE owait[t]]
  /\ oq' = oq \o [i \in 1..Cardinality(OverlayAwaiters(a)) |->
                     <<Ascending(OverlayAwaiters(a))[i], 0>>]
  /\ ovOut' = NoEvent
  /\ UNCHANGED <<ovClient, timer, timers, decoratedNodes, rHighlight, rings,
                 okind, oin, orest, oarm, ofoc, hlCount, hideCount, ofail>>

\* the await throws in them: highlight() raises
FailOverlay(a) ==
  /\ opc' = [t \in OverlayTasks |-> IF t \in OverlayAwaiters(a) THEN "idle" ELSE opc[t]]
  /\ okind' = [t \in OverlayTasks |-> IF t \in OverlayAwaiters(a) THEN "none" ELSE okind[t]]
  /\ oin' = [t \in OverlayTasks |-> IF t \in OverlayAwaiters(a) THEN 0 ELSE oin[t]]
  /\ owait' = [t \in OverlayTasks |-> IF t \in OverlayAwaiters(a) THEN NoClient ELSE owait[t]]
  /\ ofoc' = [t \in OverlayTasks |-> IF t \in OverlayAwaiters(a) THEN "none" ELSE ofoc[t]]
  /\ ovOut' = IF OverlayAwaiters(a) # {}
               THEN [kind |-> "highlight_error", error |-> "connect",
                     input |-> oin[CHOOSE t \in OverlayAwaiters(a) : TRUE]]
               ELSE NoEvent
  /\ hlCount' = IF OverlayAwaiters(a) # {} THEN 0 ELSE hlCount
  /\ ofail' = IF OverlayAwaiters(a) # {} THEN "failed" ELSE ofail
  /\ UNCHANGED <<ovClient, timer, timers, decoratedNodes, rHighlight, rings, ocl, orest,
                 oarm, oq, hideCount>>

\* --------------------------------------------- NetworkRecorder: the records
RequestIds == {1, 2}
EventKinds == {"requestWillBeSent", "responseReceived", "loadingFinished", "loadingFailed"}

\* `undefined` in a string-valued and in a number-valued field or parameter
NoStr == "undefined"
NoNum == -1

\* Date.now() / 1000 when a record is created
Now == 7

\* the lifecycle events the page can push.  Parameters the protocol marks
\* optional may be absent: the resource type and the post data of
\* requestWillBeSent, the cache flags of responseReceived.  Events 1 and 2 are
\* the two requestWillBeSent events of a redirected request.
NetEvents == <<
  [kind |-> "requestWillBeSent", requestId |-> 1, url |-> "/a", method |-> "GET",
   type |-> "Document", timestamp |-> 10, hasPostData |-> FALSE, postLen |-> NoNum],
  [kind |-> "requestWillBeSent", requestId |-> 1, url |-> "/a2", method |-> "GET",
   type |-> NoStr, timestamp |-> 11, hasPostData |-> FALSE, postLen |-> NoNum],
  [kind |-> "requestWillBeSent", requestId |-> 2, url |-> "/b", method |-> "POST",
   type |-> "XHR", timestamp |-> 12, hasPostData |-> TRUE, postLen |-> 5],
  [kind |-> "responseReceived", requestId |-> 1, status |-> 200,
   fromDiskCache |-> NoStr, fromServiceWorker |-> NoStr],
  [kind |-> "responseReceived", requestId |-> 2, status |-> 500,
   fromDiskCache |-> "false", fromServiceWorker |-> "true"],
  [kind |-> "loadingFinished", requestId |-> 1, encodedDataLength |-> 100, timestamp |-> 20],
  [kind |-> "loadingFailed", requestId |-> 2, errorText |-> "net::ERR_FAILED",
   timestamp |-> 30] >>

\* #ensureRecord: the record created for an id not seen before.  Of the fields
\* that are assigned alike, one is kept: url stands for wallTime, initiatorType
\* and requestHeaders too, status for statusText, mimeType and responseHeaders,
\* encodedDataLength for responseBodySize.
NewRecord(id) ==
  [requestId |-> id, url |-> "", method |-> "GET", startTime |-> Now,
   resourceType |-> NoStr, requestBodySize |-> NoNum, status |-> NoNum,
   fromCache |-> NoStr, encodedDataLength |-> NoNum, endTime |-> NoNum,
   errorText |-> NoStr]

\* `a || b` on the cache flags
OrFlag(a, b) == IF a = "true" THEN a ELSE b

\* the assignments of the four listeners
OnRequestWillBeSent(rec, p) ==
  [rec EXCEPT !.url = p.url,
              !.method = p.method,
              !.resourceType = p.type,
              !.startTime = IF p.timestamp # NoNum THEN p.timestamp ELSE @,
              !.requestBodySize = IF p.hasPostData THEN p.postLen ELSE @]

OnResponseReceived(rec, p) ==
  [rec EXCEPT !.status = p.status,
              !.fromCache = OrFlag(p.fromDiskCache, p.fromServiceWorker)]

OnLoadingFinished(rec, p) ==
  [rec EXCEPT !.encodedDataLength = p.encodedDataLength,
              !.endTime = IF p.timestamp # NoNum THEN p.timestamp ELSE @]

OnLoadingFailed(rec, p) ==
  [rec EXCEPT !.errorText = IF p.errorText # NoStr THEN p.errorText ELSE "Request failed",
              !.endTime = IF p.timestamp # NoNum THEN p.timestamp ELSE @]

\* mutant of the listeners: the record is built again from each event
MergeFromScratch(rec, p) ==
  CASE p.kind = "requestWillBeSent" -> OnRequestWillBeSent(NewRecord(rec.requestId), p)
    [] p.kind = "responseReceived" -> OnResponseReceived(NewRecord(rec.requestId), p)
    [] p.kind = "loadingFinished" -> OnLoadingFinished(NewRecord(rec.requestId), p)
    [] p.kind = "loadingFailed" -> OnLoadingFailed(NewRecord(rec.requestId), p)

Merge(rec, p) ==
  CASE p.kind = "requestWillBeSent" -> OnRequestWillBeSent(rec, p)
    [] p.kind = "responseReceived" -> OnResponseReceived(rec, p)
    [] p.kind = "loadingFinished" -> OnLoadingFinished(rec, p)
    [] p.kind = "loadingFailed" -> OnLoadingFailed(rec, p)

\* mutant of the listeners: the capture gate is not consulted
HandleEventUngated(cap, st, p) ==
  LET id == p.requestId
      known == id \in DOMAIN st.requests
      rec == IF known THEN st.requests[id] ELSE NewRecord(id)
  IN [requests |-> [x \in DOMAIN st.requests \cup {id} |->
                      IF x = id THEN Merge(rec, p) ELSE st.requests[x]],
      order |-> IF known THEN st.order ELSE Append(st.order, id)]

\* one listener call: `if (!this.#capturing) return`, #ensureRecord, the assignments
HandleEvent(cap, st, p) ==
  IF ~cap THEN st
  ELSE LET id == p.requestId
           known == id \in DOMAIN st.requests
           rec == IF known THEN st.requests[id] ELSE NewRecord(id)
       IN [requests |-> [x \in DOMAIN st.requests \cup {id} |->
                           IF x = id THEN Merge(rec, p) ELSE st.requests[x]],
           order |-> IF known THEN st.order ELSE Append(st.order, id)]

RECURSIVE HandleTimes(_, _, _, _)
HandleTimes(cap, st, p, n) ==
  IF n = 0 THEN st ELSE HandleTimes(cap, HandleEvent(cap, st, p), p, n - 1)

\* mutant of getRequests(): the records are listed in the order of their ids
GetRequestsById(reqs, ord) ==
  LET ids == {ord[i] : i \in 1..Len(ord)} \cap DOMAIN reqs
      Rank(id) == Cardinality({x \in ids : x <= id})
  IN [i \in 1..Cardinality(ids) |-> reqs[CHOOSE id \in ids : Rank(id) = i]]

\* getRequests()
GetRequests(reqs, ord) ==
  LET present == SelectSeq(ord, LAMBDA id : id \in DOMAIN reqs)
  IN [i \in 1..Len(present) |-> reqs[present[i]]]

NoHistory == [id \in RequestIds |-> [k \in EventKinds |-> 0]]

\* the arguments of network_list_requests once parsed (limit defaults to 20 and
\* onlyFailed to false in the schema); an absent list has has* = FALSE
ListArgs(limit, hasMethods, methods, onlyFailed, hasTypes, resourceTypes) ==
  [limit |-> limit, hasMethods |-> hasMethods, methods |-> methods,
   onlyFailed |-> onlyFailed, hasTypes |-> hasTypes, resourceTypes |-> resourceTypes]

\* Array.prototype.includes
Includes(seq, x) == \E i \in 1..Len(seq) : seq[i] = x

\* the filter callback of network_list_requests: the three `return false` tests
Passes(request, a) ==
  /\ ~(/\ a.hasMethods /\ Len(a.methods) > 0
       /\ ~Includes(a.methods, request.method))
  /\ ~(/\ a.onlyFailed
       /\ request.errorText \in {NoStr, ""}              \* !request.errorText
       /\ request.status \notin {NoNum, 0}                \* request.status
       /\ request.status < 400)
  /\ ~(/\ a.hasTypes /\ Len(a.resourceTypes) > 0
       /\ request.resourceType \notin {NoStr, ""}         \* request.resourceType
       /\ ~Includes(a.resourceTypes, request.resourceType))

\* network_list_requests: `requests.filter(...).slice(0, limit)`
ListRequests(recs, a) ==
  LET filtered == SelectSeq(recs, LAMBDA request : Passes(request, a))
  IN SubSeq(filtered, 1, IF a.limit < Len(filtered) THEN a.limit ELSE Len(filtered))

\* tasks of the recorder awaiting session.getClient() in #getClient
NetAwaiters(a) == {t \in NetTasks : npc[t] = "n_client" /\ nwait[t] = a}

\* mutant of `if (!this.#attached)`: every call that gets the client attaches
AttachesUnguarded(attached, n) == n

\* how many times #attachListeners runs when n calls go through the end of
\* #getClient one after the other: the first one sets #attached
Attaches(attached, n) == IF attached \/ n = 0 THEN 0 ELSE 1

\* #getClient after the await, in n calls: `this.#client = client` and the
\* listeners, once
AdoptBy(cl, n) ==
  /\ nrClient' = cl
  /\ nrAttached' = TRUE
  /\ attachedN' = [attachedN EXCEPT ![cl] = @ + Attaches(nrAttached, n)]

Adopt(cl) == AdoptBy(cl, 1)

\* they go on with their command: Network.enable, or the fetch of a body
ResumeNet(a) ==
  /\ npc' = [t \in NetTasks |-> IF t \in NetAwaiters(a) THEN "n_command" ELSE npc[t]]
  /\ ncl' = [t \in NetTasks |-> IF t \in NetAwaiters(a) THEN a ELSE ncl[t]]
  /\ nwait' = [t \in NetTasks |-> IF t \in NetAwaiters(a) THEN NoClient ELSE nwait[t]]
  /\ IF NetAwaiters(a) # {} THEN AdoptBy(a, Cardinality(NetAwaiters(a)))
                             ELSE UNCHANGED <<nrClient, nrAttached, attachedN>>
  /\ netEv' = NoEvent
  /\ UNCHANGED <<capturing, requests, order, netOn, nkind, nbase, lastOf>>

\* mutant of the body getters: the failure is raised as start() raises it
FailureRaised(kind) == [kind |-> "start_error"]

\* how a recorder call of that kind ends when it cannot get or use its client:
\* start() raises, the body getters return null
Failure(kind) == [kind |-> IF kind = "start" THEN "start_error" ELSE "body_null"]

\* the await throws in them
FailNet(a) ==
  /\ npc' = [t \in NetTasks |-> IF t \in NetAwaiters(a) THEN "idle" ELSE npc[t]]
  /\ nkind' = [t \in NetTasks |-> IF t \in NetAwaiters(a) THEN "none" ELSE nkind[t]]
  /\ nwait' = [t \in NetTasks |-> IF t \in NetAwaiters(a) THEN NoClient ELSE nwait[t]]
  /\ nbase' = [t \in NetTasks |-> IF t \in NetAwaiters(a) THEN 0 ELSE nbase[t]]
  /\ netEv' = IF NetAwaiters(a) = {} THEN NoEvent
              ELSE Failure(nkind[CHOOSE t \in NetAwaiters(a) : \A u \in NetAwaiters(a) : t <= u])
  /\ UNCHANGED <<nrClient, capturing, requests, order, nrAttached, attachedN, netOn, ncl, lastOf>>

\* the promise of attempt a resolves: every awaiter runs
\* `this.#client = await this.#clientPromise; return this.#client` and goes on
Resolve(a) ==
  /\ attempt' = [attempt EXCEPT ![a] = "resolved"]
  /\ client' = IF \/ Awaiters(a) # {} \/ ConsoleAwaiters(a) # {}
                  \/ OverlayAwaiters(a) # {} \/ NetAwaiters(a) # {}
                  THEN a ELSE client
  /\ cpc' = [p \in Callers |-> IF p \in Awaiters(a) THEN AfterEnsure(cop[p]) ELSE cpc[p]]
  /\ cres' = [p \in Callers |-> IF p \in Awaiters(a) /\ cop[p] # "connect"
                                  THEN a ELSE cres[p]]
  /\ cop' = [p \in Callers |-> IF p \in Awaiters(a) /\ cop[p] = "connect"
                                 THEN "none" ELSE cop[p]]
  /\ cwait' = [p \in Callers |-> IF p \in Awaiters(a) /\ cop[p] = "connect"
                                   THEN NoClient ELSE cwait[p]]
  /\ ResumeConsole(a)
  /\ ResumeOverlay(a)
  /\ ResumeNet(a)

\* the promise of attempt a rejects: the await in #ensureClient throws in every awaiter
Reject(a) ==
  /\ attempt' = [attempt EXCEPT ![a] = "rejected"]
  /\ cpc' = [p \in Callers |-> IF p \in Awaiters(a) THEN "idle" ELSE cpc[p]]
  /\ cop' = [p \in Callers |-> IF p \in Awaiters(a) THEN "none" ELSE cop[p]]
  /\ cwait' = [p \in Callers |-> IF p \in Awaiters(a) THEN NoClient ELSE cwait[p]]
  /\ FailConsole(a)
  /\ FailOverlay(a)
  /\ FailNet(a)
  /\ UNCHANGED <<client, cres>>

\* #connectInternal: `await CDP({target})` settles
CdpOpened(a) ==
  /\ Quiescent
  /\ attempt[a] = "cdp"
  /\ conn' = [conn EXCEPT ![a] = "open"]       \* #registerDisconnectHandler(client)
  /\ attempt' = [attempt EXCEPT ![a] = "runtime_enable"]
  /\ UNCHANGED <<consoleVars, overlayVars, netVars>> /\ Silent
  /\ UNCHANGED <<client, clientPromise, handlers, logVars, callerVars, disposeVars, everReset>>

CdpFailed(a) ==
  /\ Quiescent
  /\ attempt[a] = "cdp"
  /\ Reject(a)
  /\ UNCHANGED <<clientPromise, conn, handlers, logVars, disposeVars, everReset>>

\* #enableDomains: `await client.Runtime.enable()` settles (not caught)
RuntimeEnabled(a) ==
  /\ Quiescent
  /\ attempt[a] = "runtime_enable"
  /\ conn[a] = "open"
  /\ attempt' = [attempt EXCEPT ![a] = "page_enable"]
  /\ UNCHANGED <<consoleVars, overlayVars, netVars>> /\ Silent
  /\ UNCHANGED <<client, clientPromise, conn, handlers, logVars, callerVars, disposeVars, everReset>>

RuntimeEnableFailed(a) ==
  /\ attempt[a] = "runtime_enable"
  /\ conn[a] # "open" \/ Quiescent
  /\ Reject(a)
  /\ UNCHANGED <<clientPromise, conn, handlers, logVars, disposeVars, everReset>>

\* Page.enable, Console.enable, Log.enable: awaited with .catch(() => {}), so the
\* attempt goes on whether the command succeeded or failed (as it does on a
\* connection that is no longer open); after Log.enable, #registerEventHandlers runs
EnableStep(a) ==
  /\ attempt[a] \in {"page_enable", "console_enable", "log_enable"}
  /\ conn[a] # "open" \/ Quiescent
  /\ attempt' = [attempt EXCEPT ![a] =
        CASE attempt[a] = "page_enable" -> "console_enable"
          [] attempt[a] = "console_enable" -> "log_enable"
          [] attempt[a] = "log_enable" -> "run_waiting"]
  /\ handlers' = IF attempt[a] = "log_enable" THEN [handlers EXCEPT ![a] = TRUE] ELSE handlers
  /\ UNCHANGED <<consoleVars, overlayVars, netVars>> /\ Silent
  /\ UNCHANGED <<client, clientPromise, conn, logVars, callerVars, disposeVars, everReset>>

\* #maybeRunWaitingDebugger settles (failure caught); #connectInternal returns client
ConnectDone(a) ==
  /\ attempt[a] = "run_waiting"
  /\ conn[a] # "open" \/ Quiescent
  /\ Resolve(a)
  /\ UNCHANGED <<clientPromise, conn, handlers, logVars, disposeVars, everReset>>

\* a round trip of evaluate() / captureScreenshot() settles
CommandOk(p) ==
  /\ Quiescent
  /\ cpc[p] \in CommandPcs
  /\ conn[cres[p]] = "open"
  /\ cpc' = [cpc EXCEPT ![p] = IF cpc[p] = "bringToFront" THEN "capture" ELSE "idle"]
  /\ cop' = [cop EXCEPT ![p] = IF cpc[p] = "bringToFront" THEN cop[p] ELSE "none"]
  /\ cwait' = [cwait EXCEPT ![p] = IF cpc[p] = "bringToFront" THEN cwait[p] ELSE NoClient]
  /\ cres' = [cres EXCEPT ![p] = IF cpc[p] = "bringToFront" THEN cres[p] ELSE NoClient]
  /\ UNCHANGED <<consoleVars, overlayVars, netVars>> /\ Silent
  /\ UNCHANGED <<sessionVars, logVars, disposeVars, everReset>>

CommandFailed(p) ==
  /\ cpc[p] \in CommandPcs
  /\ conn[cres[p]] # "open" \/ Quiescent
  \* Page.bringToFront() is in try/catch; the other two propagate
  /\ cpc' = [cpc EXCEPT ![p] = IF cpc[p] = "bringToFront" THEN "capture" ELSE "idle"]
  /\ cop' = [cop EXCEPT ![p] = IF cpc[p] = "bringToFront" THEN cop[p] ELSE "none"]
  /\ cwait' = [cwait EXCEPT ![p] = IF cpc[p] = "bringToFront" THEN cwait[p] ELSE NoClient]
  /\ cres' = [cres EXCEPT ![p] = IF cpc[p] = "bringToFront" THEN cres[p] ELSE NoClient]
  /\ UNCHANGED <<consoleVars, overlayVars, netVars>> /\ Silent
  /\ UNCHANGED <<sessionVars, logVars, disposeVars, everReset>>

\* the 'disconnect' handler of #registerDisconnectHandler, run when connection c drops
Disconnect(c) ==
  /\ Quiescent
  /\ conn[c] = "open"
  /\ conn' = [conn EXCEPT ![c] = "lost"]
  /\ client' = NoClient
  /\ clientPromise' = NoClient
  /\ entries' = <<>>
  /\ nextId' = 1
  /\ hist' = <<>>
  /\ afterClear' = "no"
  /\ prevLen' = 0
  /\ epochLast' = [epochLast EXCEPT ![c] = 0]
  /\ everReset' = TRUE
  /\ UNCHANGED <<consoleVars, overlayVars, netVars>> /\ Silent
  /\ UNCHANGED <<attempt, handlers, callerVars, disposeVars>>

\* numbers as decimal floats m * 10^e with a one-digit mantissa; `finite` is
\* false for a value that is no finite number (undefined, NaN, Infinity)
Dec(m, e) == [finite |-> TRUE, m |-> m, e |-> e]
NotANumber == [finite |-> FALSE, m |-> 0, e |-> 0]

\* value > 10^e
Above(value, e) == value.m > 0 /\ (value.e > e \/ (value.e = e /\ value.m > 1))

\* Date.now() of `new Date()`, in milliseconds
NowMs == [now |-> TRUE, m |-> 0, e |-> 0]
DateOf(m, e) == [now |-> FALSE, m |-> m, e |-> IF m = 0 THEN 0 ELSE e]

\* #timestampFromSeconds: the epoch milliseconds of the Date it returns
timestampFromSeconds(value) ==
  IF ~value.finite THEN NowMs
  ELSE IF Above(value, 12) THEN DateOf(value.m, value.e)
  ELSE IF Above(value, 6) THEN DateOf(value.m, value.e - 3)
  ELSE DateOf(value.m, value.e + 3)

\* the timestamps the page sends with an event
TimestampSamples ==
  {NotANumber} \cup {Dec(m, e) : m \in {-1, 0, 1, 2}, e \in {0, 6, 9, 12, 13}}

\* a pushed event reaches a handler of #registerEventHandlers, which calls
\* #recordEntry; ev is what the step shows of the entry's timestamp
RecordShowing(c, kind, ev) ==
  /\ Quiescent
  /\ conn[c] = "open"
  /\ handlers[c]
  /\ LET r == RecordEntry(entries, nextId, kind)
     IN /\ entries' = r.entries
        /\ nextId' = r.nextId
        /\ hist' = Append(hist, r.entries[Len(r.entries)])
        /\ epochLast' = [epochLast EXCEPT ![c] = r.entries[Len(r.entries)].id]
  /\ afterClear' = IF afterClear = "cleared" THEN "recorded" ELSE "no"
  /\ prevLen' = IF afterClear = "cleared" THEN prevLen ELSE 0
  /\ UNCHANGED <<consoleVars, overlayVars, netVars>>
  /\ lastEv' = ev /\ sent' = <<>> /\ dOut' = NoEvent
  /\ cmOutcome' = "none" /\ ovOut' = NoEvent /\ netEv' = NoEvent
  /\ UNCHANGED <<sessionVars, callerVars, disposeVars, everReset>>


Record(c, kind) == RecordShowing(c, kind, NoEvent)

\* the event carries timestamp v
RecordAt(c, kind, v) ==
  RecordShowing(c, kind, [kind |-> "entry", of |-> kind, value |-> v,
                          timestamp |-> timestampFromSeconds(v)])

OnConsoleAPICalled(c, bound) ==
  /\ Len(hist) < bound
  /\ Record(c, "console")

OnExceptionThrown(c, bound) ==
  /\ Len(hist) < bound
  /\ Record(c, "exception")

OnLogEntryAdded(c, bound) ==
  /\ Len(hist) < bound
  /\ Record(c, "log")

\* mutant of clearEntries(): the id counter is left alone
ClearEntriesKeepsCounter ==
  /\ Quiescent
  /\ entries' = <<>>
  /\ nextId' = nextId
  /\ hist' = <<>>
  /\ afterClear' = "cleared"
  /\ prevLen' = Len(entries)
  /\ UNCHANGED <<consoleVars, overlayVars, netVars>> /\ Silent
  /\ UNCHANGED <<sessionVars, epochLast, callerVars, disposeVars, everReset>>

ClearEntries ==
  /\ Quiescent
  /\ entries' = <<>>
  /\ nextId' = 1
  /\ hist' = <<>>
  /\ afterClear' = "cleared"
  /\ prevLen' = Len(entries)
  /\ UNCHANGED <<consoleVars, overlayVars, netVars>> /\ Silent
  /\ UNCHANGED <<sessionVars, epochLast, callerVars, disposeVars, everReset>>

\* a step in which nothing but a dispose() call may end
SilentBut == lastEv' = NoEvent /\ sent' = <<>> /\ cmOutcome' = "none"
             /\ ovOut' = NoEvent /\ netEv' = NoEvent

\* dispose(): the synchronous part, up to `await client.close()`; with no client
\* the call returns in this step
Dispose ==
  /\ Quiescent
  /\ dpc = "idle"
  /\ client' = NoClient
  /\ clientPromise' = NoClient
  /\ dcl' = client
  /\ dpc' = IF client # NoClient THEN "closing" ELSE "idle"
  /\ dOut' = IF client # NoClient THEN NoEvent
                                  ELSE [kind |-> "returned", closing |-> FALSE,
                                        failed |-> FALSE]
  /\ everReset' = TRUE
  /\ UNCHANGED <<consoleVars, overlayVars, netVars>> /\ SilentBut
  /\ UNCHANGED <<attempt, conn, handlers, logVars, callerVars>>

\* client.close() settles: fulfilled (ok), and the connection is closed without a
\* 'disconnect' event, or rejected, and the connection is left as it was; the
\* rejection is caught and dispose() returns either way
DisposeClosed(ok) ==
  /\ Quiescent
  /\ dpc = "closing"
  /\ dpc' = "idle"
  /\ dcl' = NoClient
  /\ dOut' = [kind |-> "returned", closing |-> TRUE, failed |-> ~ok]
  /\ conn' = IF ok /\ conn[dcl] = "open" THEN [conn EXCEPT ![dcl] = "closed"] ELSE conn
  /\ epochLast' = IF ok THEN [epochLast EXCEPT ![dcl] = 0] ELSE epochLast
  /\ UNCHANGED <<consoleVars, overlayVars, netVars>> /\ SilentBut
  /\ UNCHANGED <<client, clientPromise, attempt, handlers, entries, nextId, hist,
                 afterClear, prevLen, callerVars, everReset>>


\* --------------------------------------------------- ConsoleStreamManager
DEFAULT_LEVELS == <<"log", "debug", "info", "warn", "error">>

\* the option objects passed to subscribe(); an absent field has has* = FALSE
SubscribeInputs == <<
  [hasLevels |-> FALSE, levels |-> <<>>, hasExc |-> FALSE, exc |-> FALSE,
   hasStack |-> FALSE, stack |-> FALSE],
  [hasLevels |-> TRUE, levels |-> <<>>, hasExc |-> FALSE, exc |-> FALSE,
   hasStack |-> FALSE, stack |-> FALSE],
  [hasLevels |-> TRUE, levels |-> <<"error">>, hasExc |-> FALSE, exc |-> FALSE,
   hasStack |-> FALSE, stack |-> FALSE],
  [hasLevels |-> TRUE, levels |-> <<"log", "warn">>, hasExc |-> TRUE, exc |-> FALSE,
   hasStack |-> FALSE, stack |-> FALSE],
  [hasLevels |-> TRUE, levels |-> <<"debug", "info">>, hasExc |-> TRUE, exc |-> TRUE,
   hasStack |-> TRUE, stack |-> TRUE] >>

ConsoleTypes == {"log", "debug", "info", "error", "warning", "assert", "trace", "dir",
                 "startGroup", "table"}

\* mutant of subscribe(): an empty levels list is kept
NormalizeKeepsEmpty(o) ==
  [levels |-> IF o.hasLevels THEN o.levels ELSE DEFAULT_LEVELS,
   includeExceptions |-> IF o.hasExc THEN o.exc ELSE TRUE,
   includeStack |-> IF o.hasStack THEN o.stack ELSE FALSE]

\* subscribe(): `const normalized = {...}`
Normalize(o) ==
  [levels |-> IF o.hasLevels /\ Len(o.levels) > 0 THEN o.levels ELSE DEFAULT_LEVELS,
   includeExceptions |-> IF o.hasExc THEN o.exc ELSE TRUE,
   includeStack |-> IF o.hasStack THEN o.stack ELSE FALSE]

\* mutant of mapConsoleTypeToStreamLevel: `case 'info'` is missing
mapConsoleTypeToStreamLevelNoInfo(type) ==
  CASE type \in {"assert", "error"} -> "error"
    [] type = "warning" -> "warn"
    [] type = "debug" -> "debug"
    [] OTHER -> "log"

mapConsoleTypeToStreamLevel(type) ==
  CASE type \in {"assert", "error"} -> "error"
    [] type = "warning" -> "warn"
    [] type = "debug" -> "debug"
    [] type = "info" -> "info"
    [] OTHER -> "log"

mapConsoleTypeToLoggingLevel(type) ==
  CASE type \in {"assert", "error"} -> "error"
    [] type = "warning" -> "warning"
    [] type = "debug" -> "debug"
    [] OTHER -> "info"

\* mutant of #handleConsoleEvent: the level filter is skipped
HandleConsoleEventUnfiltered(sub, type) ==
  IF sub = <<>> THEN <<>>
  ELSE <<[level |-> mapConsoleTypeToLoggingLevel(type), of |-> "console"]>>

\* #handleConsoleEvent: the notifications one listener call sends
HandleConsoleEvent(sub, type) ==
  IF sub = <<>> THEN <<>>
  ELSE IF ~Includes(sub[1].levels, mapConsoleTypeToStreamLevel(type)) THEN <<>>
  ELSE <<[level |-> mapConsoleTypeToLoggingLevel(type), of |-> "console"]>>

\* #handleException: "none", "sent", or "throws" when exceptionDetails is missing
HandleException(sub, hasDetails) ==
  IF sub = <<>> THEN "none"
  ELSE IF ~sub[1].includeExceptions THEN "none"
  ELSE IF ~hasDetails THEN "throws"
  ELSE "sent"

RECURSIVE Repeat(_, _)
Repeat(seq, n) == IF n = 0 THEN <<>> ELSE seq \o Repeat(seq, n - 1)

\* PageSession.getClient(), the connection accessor the managers call
GetClientOutcome == EnsureOutcome
GetClientTarget == EnsureTarget
GetClientEnabled == EnsureEnabled
GetClientEffect == EnsureEffect

\* mutant of `if (!this.#consoleListener)`: a listener is attached by every subscribe()
NoConsoleListenerAlways == TRUE

\* subscribe(): `!this.#consoleListener`
NoConsoleListener == consoleListener = NoClient

NoExceptionListener == exceptionListener = NoClient

nonConsoleVars == <<conn, handlers, logVars, callerVars, disposeVars, everReset, overlayVars,
                    netVars, netEv>>

\* subscribe(options) up to its first round trip
SubscribeStart(t, o) ==
  /\ Quiescent
  /\ tpc[t] = "idle"
  /\ \A u \in ConsoleTasks : u < t => tpc[u] # "idle"   \* a call takes the first free slot
  /\ GetClientEnabled
  /\ GetClientEffect
  /\ CASE GetClientOutcome = "client" ->
            \* issues client.Runtime.enable()
            /\ tpc' = [tpc EXCEPT ![t] = "sub_enable"]
            /\ topt' = [topt EXCEPT ![t] = o]
            /\ tcl' = [tcl EXCEPT ![t] = client]
            /\ cmOutcome' = "none"
            /\ UNCHANGED twait
       [] GetClientOutcome = "throws" ->
            /\ cmOutcome' = "sub_error"
            /\ UNCHANGED <<tpc, topt, tcl, twait>>
       [] GetClientOutcome = "awaits" ->
            /\ tpc' = [tpc EXCEPT ![t] = "sub_client"]
            /\ topt' = [topt EXCEPT ![t] = o]
            /\ twait' = [twait EXCEPT ![t] = GetClientTarget]
            /\ cmOutcome' = "none"
            /\ UNCHANGED tcl
  /\ Quiet /\ ovOut' = NoEvent
  /\ UNCHANGED <<client, cmClient, subscription, consoleListener, exceptionListener,
                 attachedC, attachedE, subsDone, nonConsoleVars>>

\* `await client.Runtime.enable().catch(() => {})` settles, either way; the rest of
\* subscribe() runs
SubscribeFinish(t) ==
  /\ tpc[t] = "sub_enable"
  /\ conn[tcl[t]] # "open" \/ Quiescent
  /\ cmClient' = tcl[t]
  /\ subscription' = <<Normalize(SubscribeInputs[topt[t]])>>
  /\ IF NoConsoleListener
       THEN /\ consoleListener' = tcl[t]
            /\ attachedC' = [attachedC EXCEPT ![tcl[t]] = @ + 1]
       ELSE UNCHANGED <<consoleListener, attachedC>>
  /\ IF NoExceptionListener
       THEN /\ exceptionListener' = tcl[t]
            /\ attachedE' = [attachedE EXCEPT ![tcl[t]] = @ + 1]
       ELSE UNCHANGED <<exceptionListener, attachedE>>
  /\ tpc' = [tpc EXCEPT ![t] = "idle"]
  /\ topt' = [topt EXCEPT ![t] = 0]
  /\ tcl' = [tcl EXCEPT ![t] = NoClient]
  /\ subsDone' = IF subsDone < 2 THEN subsDone + 1 ELSE subsDone
  /\ cmOutcome' = "sub_ok"
  /\ Quiet /\ ovOut' = NoEvent
  /\ UNCHANGED <<twait, sessionVars, nonConsoleVars>>

\* unsubscribe(): `this.#client ?? (await this.#session.getClient())`, then the rest
UnsubscribeStart(t) ==
  /\ Quiescent
  /\ tpc[t] = "idle"
  /\ \A u \in ConsoleTasks : u < t => tpc[u] # "idle"   \* a call takes the first free slot
  /\ IF cmClient # NoClient
       THEN /\ UnsubscribeRest(cmClient)
            /\ cmOutcome' = "unsub_ok"
            /\ UNCHANGED <<clientPromise, attempt, tpc, twait>>
       ELSE /\ GetClientEnabled
            /\ GetClientEffect
            /\ CASE GetClientOutcome = "client" ->
                      /\ UnsubscribeRest(client)
                      /\ cmOutcome' = "unsub_ok"
                      /\ UNCHANGED <<tpc, twait>>
                 [] GetClientOutcome = "throws" ->
                      /\ cmOutcome' = IF subscription = <<>>
                                        THEN "unsub_error_inactive" ELSE "unsub_error"
                      /\ UNCHANGED <<tpc, twait, subscription, consoleListener,
                                     exceptionListener, attachedC, attachedE, subsDone>>
                 [] GetClientOutcome = "awaits" ->
                      /\ tpc' = [tpc EXCEPT ![t] = "unsub_client"]
                      /\ twait' = [twait EXCEPT ![t] = GetClientTarget]
                      /\ cmOutcome' = "none"
                      /\ UNCHANGED <<subscription, consoleListener,
                                     exceptionListener, attachedC, attachedE, subsDone>>
  /\ Quiet /\ ovOut' = NoEvent
  /\ UNCHANGED <<client, cmClient, topt, tcl, nonConsoleVars>>

\* connection c is up and the Runtime domain has been enabled on it
RuntimeOn(c) == conn[c] = "open" /\ attempt[c] \notin {"cdp", "runtime_enable"}

\* Runtime.consoleAPICalled is pushed on connection c: every listener the manager
\* has on c runs #handleConsoleEvent
UpstreamConsole(c, type) ==
  /\ Quiescent
  /\ RuntimeOn(c)
  /\ lastEv' = [kind |-> "console", type |-> type, conn |-> c,
                listeners |-> attachedC[c], active |-> subscription # <<>>]
  /\ sent' = Repeat(HandleConsoleEvent(subscription, type), attachedC[c])
  /\ cmOutcome' = "none" /\ ovOut' = NoEvent /\ dOut' = NoEvent
  /\ UNCHANGED <<cmClient, subscription, consoleListener, exceptionListener,
                 attachedC, attachedE, tpc, topt, tcl, twait, subsDone,
                 sessionVars, nonConsoleVars>>

\* Runtime.exceptionThrown is pushed on connection c
UpstreamException(c, hasDetails) ==
  /\ Quiescent
  /\ RuntimeOn(c)
  /\ lastEv' = [kind |-> "exception", type |-> HandleException(subscription, hasDetails),
                conn |-> c, listeners |-> attachedE[c], active |-> subscription # <<>>]
  /\ sent' = IF HandleException(subscription, hasDetails) = "sent"
               THEN Repeat(<<[level |-> "error", of |-> "exception"]>>, attachedE[c])
               ELSE <<>>
  /\ cmOutcome' = "none" /\ ovOut' = NoEvent /\ dOut' = NoEvent
  /\ UNCHANGED <<cmClient, subscription, consoleListener, exceptionListener,
                 attachedC, attachedE, tpc, topt, tcl, twait, subsDone,
                 sessionVars, nonConsoleVars>>


\* --------------------------------------------------------- OverlayManager
\* the option objects passed to highlight(): nodeId 0 is an absent nodeId, and
\* matches is the node of the selector's first match (0: no element matches)
HighlightInputs == <<
  [nodeId |-> 1, hasSelector |-> FALSE, matches |-> 0,
   hasDuration |-> FALSE, durationMs |-> 0, hasShot |-> FALSE, returnScreenshot |-> FALSE],
  [nodeId |-> 2, hasSelector |-> FALSE, matches |-> 0,
   hasDuration |-> TRUE, durationMs |-> 5000, hasShot |-> TRUE, returnScreenshot |-> FALSE],
  [nodeId |-> 0, hasSelector |-> TRUE, matches |-> 1,
   hasDuration |-> TRUE, durationMs |-> 0, hasShot |-> TRUE, returnScreenshot |-> FALSE],
  [nodeId |-> 0, hasSelector |-> TRUE, matches |-> 0,
   hasDuration |-> FALSE, durationMs |-> 0, hasShot |-> TRUE, returnScreenshot |-> FALSE],
  [nodeId |-> 0, hasSelector |-> FALSE, matches |-> 0,
   hasDuration |-> FALSE, durationMs |-> 0, hasShot |-> FALSE, returnScreenshot |-> FALSE],
  [nodeId |-> 2, hasSelector |-> FALSE, matches |-> 0,
   hasDuration |-> FALSE, durationMs |-> 0, hasShot |-> FALSE, returnScreenshot |-> FALSE],
  [nodeId |-> 1, hasSelector |-> TRUE, matches |-> 2,
   hasDuration |-> TRUE, durationMs |-> 0, hasShot |-> TRUE, returnScreenshot |-> FALSE] >>

\* highlightFocused(): the document root is node 1; the options it passes to
\* highlight() for the root and for the focused element (node 2)
RootNode == 1
FocusRootInput == 1
FocusNodeInput == 6

\* mutant of the duration: the option is ignored
DurationIgnoresOption(o) == DEFAULT_DURATION_MS

\* `options.durationMs ?? DEFAULT_DURATION_MS`
Duration(o) == IF o.hasDuration THEN o.durationMs ELSE DEFAULT_DURATION_MS

\* `options.returnScreenshot ?? true`
WantsScreenshot(o) == IF o.hasShot THEN o.returnScreenshot ELSE TRUE

\* mutant of the target: the selector's match is preferred to the nodeId
NodeOfSelectorFirst(o) == IF o.hasSelector THEN o.matches ELSE o.nodeId

\* the node highlight() works on once it is resolved
NodeOf(o) == IF o.nodeId # 0 THEN o.nodeId ELSE o.matches

\* highlight() once it has its client: where it goes next
TargetPc(o) == IF o.nodeId # 0 THEN "highlightNode"
               ELSE IF ~o.hasSelector THEN "throw"
               ELSE "getDocument"

\* highlight() after #applyFocusRing
AfterRing(o) == IF WantsScreenshot(o) THEN "shot_front" ELSE "return"

OverlayPcs == {"overlayEnable", "getDocument", "querySelector", "highlightNode",
               "ring_resolve", "ring_call", "ring_release",
               "shot_front", "shot_capture", "hideHighlight"}

\* the round trips of highlightFocused() outside highlight()
FocusedPcs == {"f_getDocument", "f_evaluate", "f_requestNode", "f_release"}

\* what an overlay step reports when a hide() returns in it
HideDone(kind) == [kind |-> "hide_done", by |-> kind]

\* hide() calls that have returned in a row, after one more
HideCounted(kind) == IF kind = "hide" /\ hideCount < 2 THEN hideCount + 1 ELSE hideCount

\* a call begins: it follows a highlight() that raised, or it does not
Following == IF ofail = "failed" THEN "following" ELSE "no"

nonOverlayVars == <<logVars, callerVars, disposeVars, everReset, consoleVars, netVars, netEv>>

FreeTimers == TimerIds \ timers
NewTimer == CHOOSE id \in FreeTimers : \A other \in FreeTimers : id <= other

\* hide(), the synchronous part, run by task t; fired is the timer whose callback
\* this is (0 for a call)
\* mutant of hide(): the pending timer is neither cleared nor forgotten
HideFromKeepsTimer(t, fired, q) ==
  /\ timer' = timer
  /\ timers' = timers \ {fired}
  /\ decoratedNodes' = {}
  /\ orest' = [orest EXCEPT ![t] =
                 [n \in Nodes |-> IF n \in decoratedNodes THEN "resolve" ELSE "-"]]
  /\ oq' = q \o (IF decoratedNodes # {} THEN Sent(t, Ascending(decoratedNodes))
                 ELSE IF ovClient # NoClient THEN Sent(t, <<0>>)
                 ELSE <<>>)

HideFrom(t, fired, q) ==
  /\ timer' = 0
  /\ timers' = timers \ {timer, fired}
  /\ decoratedNodes' = {}
  /\ orest' = [orest EXCEPT ![t] =
                 [n \in Nodes |-> IF n \in decoratedNodes THEN "resolve" ELSE "-"]]
  /\ oq' = q \o (IF decoratedNodes # {} THEN Sent(t, Ascending(decoratedNodes))
                 ELSE IF ovClient # NoClient THEN Sent(t, <<0>>)
                 ELSE <<>>)

HideBegin(t, fired) == HideFrom(t, fired, oq)

\* where hide() waits first; "hidden": it has returned into highlight()
HidePc(kind) ==
  IF decoratedNodes # {} THEN "restore"
  ELSE IF ovClient # NoClient THEN "hideHighlight"
  ELSE IF kind = "highlight" THEN "hidden" ELSE "hide_return"

\* highlight(options) is called: `await this.hide()`
HighlightStart(t, i) ==
  /\ Quiescent
  /\ opc[t] = "idle"
  /\ \A u \in OverlayTasks : u < t => opc[u] # "idle"   \* a call takes the first free slot
  /\ HideBegin(t, 0)
  /\ opc' = [opc EXCEPT ![t] = HidePc("highlight")]
  /\ okind' = [okind EXCEPT ![t] = "highlight"]
  /\ oin' = [oin EXCEPT ![t] = i]
  /\ hideCount' = 0
  /\ ofail' = Following
  /\ Silent
  /\ UNCHANGED <<ovClient, rHighlight, rings, owait, ocl, oarm, ofoc, hlCount, sessionVars,
                 nonOverlayVars>>

\* the timer's callback runs: `void this.hide()`
TimerFire(t, id) ==
  /\ Quiescent
  /\ opc[t] = "idle"
  /\ \A u \in OverlayTasks : u < t => opc[u] # "idle"
  /\ id \in timers
  /\ HideBegin(t, id)
  /\ opc' = [opc EXCEPT ![t] = IF HidePc("timer") = "hide_return" THEN "idle" ELSE HidePc("timer")]
  /\ okind' = [okind EXCEPT ![t] = IF HidePc("timer") = "hide_return" THEN "none" ELSE "timer"]
  /\ ovOut' = IF HidePc("timer") = "hide_return" THEN HideDone("timer") ELSE NoEvent
  /\ Quiet /\ cmOutcome' = "none"
  /\ UNCHANGED <<ovClient, rHighlight, rings, oin, owait, ocl, oarm, ofoc, hlCount, hideCount, ofail,
                 sessionVars, nonOverlayVars>>

\* hide() is called
HideStart(t) ==
  /\ Quiescent
  /\ opc[t] = "idle"
  /\ \A u \in OverlayTasks : u < t => opc[u] # "idle"
  /\ HideBegin(t, 0)
  /\ opc' = [opc EXCEPT ![t] = IF HidePc("hide") = "hide_return" THEN "idle" ELSE HidePc("hide")]
  /\ okind' = [okind EXCEPT ![t] = IF HidePc("hide") = "hide_return" THEN "none" ELSE "hide"]
  /\ ovOut' = IF HidePc("hide") = "hide_return" THEN HideDone("hide") ELSE NoEvent
  /\ hideCount' = IF HidePc("hide") = "hide_return" THEN HideCounted("hide") ELSE hideCount
  /\ hlCount' = 0
  /\ ofail' = Following
  /\ Quiet /\ cmOutcome' = "none"
  /\ UNCHANGED <<ovClient, rHighlight, rings, oin, owait, ocl, oarm, ofoc,
                 sessionVars, nonOverlayVars>>

\* highlight() goes on after hide(): `const client = await this.#getClient()` and
\* the choice of the node
HighlightProceed(t) ==
  /\ opc[t] = "hidden"
  /\ IF ovClient # NoClient
       THEN /\ opc' = [opc EXCEPT ![t] = IF TargetPc(HighlightInputs[oin[t]]) = "throw"
                                           THEN "idle" ELSE TargetPc(HighlightInputs[oin[t]])]
            /\ okind' = [okind EXCEPT ![t] = IF TargetPc(HighlightInputs[oin[t]]) = "throw"
                                               THEN "none" ELSE @]
            /\ oin' = [oin EXCEPT ![t] = IF TargetPc(HighlightInputs[oin[t]]) = "throw"
                                           THEN 0 ELSE @]
            /\ ovOut' = IF TargetPc(HighlightInputs[oin[t]]) = "throw"
                          THEN [kind |-> "highlight_error", error |-> "no_target",
                                input |-> oin[t]]
                          ELSE NoEvent
            /\ hlCount' = IF TargetPc(HighlightInputs[oin[t]]) = "throw" THEN 0 ELSE hlCount
            /\ ofail' = IF TargetPc(HighlightInputs[oin[t]]) = "throw" THEN "failed" ELSE ofail
            /\ oq' = IF TargetPc(HighlightInputs[oin[t]]) = "throw" THEN oq
                      ELSE oq \o Sent(t, <<0>>)
            /\ UNCHANGED <<clientPromise, attempt, owait, ocl>>
       ELSE /\ GetClientEnabled
            /\ GetClientEffect
            /\ CASE GetClientOutcome = "client" ->
                      /\ opc' = [opc EXCEPT ![t] = "overlayEnable"]
                      /\ ocl' = [ocl EXCEPT ![t] = client]
                      /\ oq' = oq \o Sent(t, <<0>>)
                      /\ ovOut' = NoEvent
                      /\ UNCHANGED <<okind, oin, owait, hlCount, ofail>>
                 [] GetClientOutcome = "throws" ->
                      /\ opc' = [opc EXCEPT ![t] = "idle"]
                      /\ okind' = [okind EXCEPT ![t] = "none"]
                      /\ oin' = [oin EXCEPT ![t] = 0]
                      /\ ovOut' = [kind |-> "highlight_error", error |-> "connect",
                                   input |-> oin[t]]
                      /\ hlCount' = 0
                      /\ ofail' = "failed"
                      /\ UNCHANGED <<owait, ocl, oq>>
                 [] GetClientOutcome = "awaits" ->
                      /\ opc' = [opc EXCEPT ![t] = "getClient"]
                      /\ owait' = [owait EXCEPT ![t] = GetClientTarget]
                      /\ ovOut' = NoEvent
                      /\ UNCHANGED <<okind, oin, ocl, oq, hlCount, ofail>>
  /\ Quiet /\ cmOutcome' = "none"
  /\ ofoc' = [ofoc EXCEPT ![t] = IF opc'[t] = "idle" THEN "none" ELSE @]
  /\ UNCHANGED <<ovClient, timer, timers, decoratedNodes, rHighlight, rings, orest, oarm,
                 hideCount, client, conn, handlers, nonOverlayVars>>

\* #restoreDecorations: one command of the restoration of node n settles in task t
\* (DOM.resolveNode, Runtime.callFunctionOn with restoreRing, Runtime.releaseObject);
\* a resolveNode answer without objectId counts as a failure of that command
RestoreSettle(t, n, ok) ==
  LET stage == orest[t][n]
      next == CASE stage = "resolve" -> (IF ok THEN "call" ELSE "-")
                [] stage = "call" -> "release"
                [] stage = "release" -> "-"
      rest == [orest[t] EXCEPT ![n] = next]
      allDone == \A m \in Nodes : rest[m] = "-"
      after == IF ~allDone THEN "restore"
               ELSE IF ovClient # NoClient THEN "hideHighlight"
               ELSE IF okind[t] = "highlight" THEN "hidden" ELSE "hide_return"
  IN /\ opc[t] = "restore"
     /\ oq # <<>> /\ Head(oq) = <<t, n>>
     /\ oq' = Tail(oq) \o (IF next # "-" THEN Sent(t, <<n>>)
                           ELSE IF after = "hideHighlight" THEN Sent(t, <<0>>)
                           ELSE <<>>)
     /\ orest' = [orest EXCEPT ![t] = rest]
     /\ rings' = IF ok /\ stage = "call" THEN rings \ {n} ELSE rings
     /\ opc' = [opc EXCEPT ![t] = IF after = "hide_return" THEN "idle" ELSE after]
     /\ okind' = [okind EXCEPT ![t] = IF after = "hide_return" THEN "none" ELSE @]
     /\ ovOut' = IF after = "hide_return" THEN HideDone(okind[t]) ELSE NoEvent
     /\ hideCount' = IF after = "hide_return" THEN HideCounted(okind[t]) ELSE hideCount
     /\ Quiet /\ cmOutcome' = "none"
     /\ UNCHANGED <<ovClient, timer, timers, decoratedNodes, rHighlight, oin, owait, ocl,
                    oarm, ofoc, hlCount, ofail, sessionVars, nonOverlayVars>>

RestoreOk(t, n) ==
  /\ Quiescent
  /\ opc[t] = "restore"
  /\ conn[ovClient] = "open"
  /\ RestoreSettle(t, n, TRUE)

RestoreFailed(t, n) ==
  /\ Quiescent
  /\ RestoreSettle(t, n, FALSE)

\* the connection task t has its command on
Using(t) == IF opc[t] = "overlayEnable" THEN ocl[t] ELSE ovClient

\* mutant of #applyFocusRing: no try block around the decoration
RingFailureRaises(pc, o) == "throw"

\* #applyFocusRing when a command of it fails: resolveNode and callFunctionOn
\* are caught by the outer try (after the `finally` of the latter has sent
\* releaseObject), releaseObject by its own catch
RingFailure(pc, o) ==
  CASE pc = "ring_resolve" -> AfterRing(o)
    [] pc = "ring_call" -> "ring_release"
    [] pc = "ring_release" -> AfterRing(o)

\* the command task t awaits settles, in highlight() beyond hide() or at the end
\* of hide(): what the task does up to its next await
OverlaySettle(t, ok) ==
  LET pc == opc[t]
      o == HighlightInputs[oin[t]]
      next ==
        IF pc = "hideHighlight"
          THEN (IF okind[t] = "highlight" THEN "hidden" ELSE "hide_return")
        ELSE IF ok
          THEN CASE pc = "overlayEnable" ->
                        (IF okind[t] = "focused" THEN "f_getDocument" ELSE TargetPc(o))
                 [] pc = "getDocument" -> "querySelector"
                 [] pc = "querySelector" -> (IF o.matches = 0 THEN "throw" ELSE "highlightNode")
                 [] pc = "highlightNode" -> "ring_resolve"
                 [] pc = "ring_resolve" -> "ring_call"
                 [] pc = "ring_call" -> "ring_release"
                 [] pc = "ring_release" -> AfterRing(o)
                 [] pc = "shot_front" -> "shot_capture"
                 [] pc = "shot_capture" -> "return"
          ELSE CASE pc \in {"overlayEnable", "getDocument", "querySelector",
                            "highlightNode", "shot_capture"} -> "throw"
                 [] pc \in {"ring_resolve", "ring_call", "ring_release"} -> RingFailure(pc, o)
                 [] pc = "shot_front" -> "shot_capture"
      ringEnds == pc = "ring_release" \/ (pc = "ring_resolve" /\ ~ok)
      arms == ringEnds /\ Duration(o) > 0
      ends == next \in {"return", "throw", "hide_return"}
      \* highlight() called in the try block of highlightFocused() is over: its
      \* `finally` sends Runtime.releaseObjectGroup
      inner == ends /\ ofoc[t] = "try"
  IN /\ opc[t] \in OverlayPcs
     /\ oq # <<>> /\ Head(oq) = <<t, 0>>
     /\ oq' = Tail(oq) \o (IF next \in OverlayPcs \cup FocusedPcs \/ inner
                             THEN Sent(t, <<0>>) ELSE <<>>)
     /\ arms => FreeTimers # {}
     /\ opc' = [opc EXCEPT ![t] = IF inner THEN "f_release" ELSE IF ends THEN "idle" ELSE next]
     /\ okind' = [okind EXCEPT ![t] = IF inner THEN "focused" ELSE IF ends THEN "none" ELSE @]
     /\ oin' = [oin EXCEPT ![t] = IF ends THEN 0 ELSE @]
     /\ ofoc' = [ofoc EXCEPT ![t] = IF inner THEN (IF next = "return" THEN "ret_ok" ELSE "ret_err")
                                     ELSE IF ends THEN "none" ELSE @]
     /\ hideCount' = IF next = "hide_return" THEN HideCounted(okind[t]) ELSE hideCount
     /\ ocl' = [ocl EXCEPT ![t] = IF pc = "overlayEnable" THEN NoClient ELSE @]
     /\ ovClient' = IF ok /\ pc = "overlayEnable" THEN ocl[t] ELSE ovClient
     /\ rHighlight' = IF ok /\ pc = "highlightNode" THEN NodeOf(o)
                      ELSE IF ok /\ pc = "hideHighlight" THEN 0
                      ELSE rHighlight
     /\ rings' = IF ok /\ pc = "ring_call" THEN rings \cup {NodeOf(o)} ELSE rings
     /\ decoratedNodes' = IF ok /\ pc = "ring_call"
                            THEN decoratedNodes \cup {NodeOf(o)} ELSE decoratedNodes
     /\ timer' = IF arms THEN NewTimer ELSE timer
     /\ timers' = IF arms THEN timers \cup {NewTimer} ELSE timers
     /\ oarm' = [oarm EXCEPT ![t] = IF ends THEN 0 ELSE IF arms THEN NewTimer ELSE @]
     /\ ovOut' = CASE next = "return" ->
                        [kind |-> "highlight_ok", node |-> NodeOf(o), input |-> oin[t],
                         timed |-> Duration(o) > 0,
                         fired |-> IF arms THEN FALSE ELSE oarm[t] \notin timers]
                   [] next = "throw" ->
                        [kind |-> IF okind[t] = "focused" THEN "focused_error"
                                  ELSE "highlight_error",
                         error |-> IF ok /\ pc = "querySelector" THEN "no_match"
                                   ELSE IF ok THEN "no_target"
                                   ELSE IF pc = "overlayEnable" THEN "connect"
                                   ELSE "command",
                         input |-> oin[t]]
                   [] next = "hide_return" -> HideDone(okind[t])
                   [] OTHER -> NoEvent
     /\ hlCount' = CASE next = "return" -> (IF hlCount < 2 THEN hlCount + 1 ELSE hlCount)
                     [] next = "throw" -> 0
                     [] OTHER -> hlCount
     /\ ofail' = IF next = "throw" THEN "failed" ELSE ofail
     /\ Quiet /\ cmOutcome' = "none"
     /\ UNCHANGED <<owait, orest, sessionVars, nonOverlayVars>>

OverlayCommandOk(t) ==
  /\ Quiescent
  /\ opc[t] \in OverlayPcs
  /\ conn[Using(t)] = "open"
  /\ OverlaySettle(t, TRUE)

OverlayCommandFailed(t) ==
  /\ Quiescent
  /\ OverlaySettle(t, FALSE)

\* highlightFocused() is called: `const client = await this.#getClient()`, then
\* DOM.getDocument is sent
FocusedStart(t) ==
  /\ Quiescent
  /\ opc[t] = "idle"
  /\ \A u \in OverlayTasks : u < t => opc[u] # "idle"
  /\ IF ovClient # NoClient
       THEN /\ opc' = [opc EXCEPT ![t] = "f_getDocument"]
            /\ okind' = [okind EXCEPT ![t] = "focused"]
            /\ oq' = oq \o Sent(t, <<0>>)
            /\ ovOut' = NoEvent
            /\ UNCHANGED <<clientPromise, attempt, owait, ocl>>
       ELSE /\ GetClientEnabled
            /\ GetClientEffect
            /\ CASE GetClientOutcome = "client" ->
                      /\ opc' = [opc EXCEPT ![t] = "overlayEnable"]
                      /\ okind' = [okind EXCEPT ![t] = "focused"]
                      /\ ocl' = [ocl EXCEPT ![t] = client]
                      /\ oq' = oq \o Sent(t, <<0>>)
                      /\ ovOut' = NoEvent
                      /\ UNCHANGED owait
                 [] GetClientOutcome = "throws" ->
                      /\ ovOut' = [kind |-> "focused_error"]
                      /\ UNCHANGED <<opc, okind, owait, ocl, oq>>
                 [] GetClientOutcome = "awaits" ->
                      /\ opc' = [opc EXCEPT ![t] = "getClient"]
                      /\ okind' = [okind EXCEPT ![t] = "focused"]
                      /\ owait' = [owait EXCEPT ![t] = GetClientTarget]
                      /\ ovOut' = NoEvent
                      /\ UNCHANGED <<ocl, oq>>
  /\ hlCount' = 0
  /\ ofail' = Following
  /\ hideCount' = 0
  /\ Quiet /\ cmOutcome' = "none"
  /\ UNCHANGED <<ovClient, timer, timers, decoratedNodes, rHighlight, rings, oin, orest,
                 oarm, ofoc, client, conn, handlers, nonOverlayVars>>

\* a round trip of highlightFocused() outside highlight() settles in task t; ans
\* is the node the answer names (the focused element for Runtime.evaluate and
\* DOM.requestNode), 0 when it names none
FocusedSettle(t, ok, ans) ==
  LET pc == opc[t]
      next ==
        CASE pc = "f_getDocument" -> (IF ok THEN "f_evaluate" ELSE "throw")
          [] pc = "f_evaluate" ->
               (IF ~ok THEN "throw" ELSE IF ans # 0 THEN "f_requestNode" ELSE "root")
          [] pc = "f_requestNode" -> (IF ok /\ ans # 0 THEN "inner" ELSE "f_release")
          [] pc = "f_release" ->
               \* releaseObjectGroup is caught: what the `finally` interrupted goes on
               (CASE ofoc[t] = "ret_ok" -> "return"
                  [] ofoc[t] = "ret_err" -> "throw"
                  [] ofoc[t] = "to_root" -> "root")
      calls == next \in {"inner", "root"}     \* highlight() is called: `await this.hide()`
      ends == next \in {"return", "throw"}
  IN /\ opc[t] \in FocusedPcs
     /\ oq # <<>> /\ Head(oq) = <<t, 0>>
     /\ IF calls
          THEN HideFrom(t, 0, Tail(oq))
          ELSE /\ oq' = Tail(oq) \o (IF next \in FocusedPcs THEN Sent(t, <<0>>) ELSE <<>>)
               /\ UNCHANGED <<timer, timers, decoratedNodes, orest>>
     /\ opc' = [opc EXCEPT ![t] = IF calls THEN HidePc("highlight")
                                   ELSE IF ends THEN "idle" ELSE next]
     /\ okind' = [okind EXCEPT ![t] = IF calls THEN "highlight"
                                       ELSE IF ends THEN "none" ELSE @]
     /\ oin' = [oin EXCEPT ![t] = CASE next = "inner" -> FocusNodeInput
                                     [] next = "root" -> FocusRootInput
                                     [] OTHER -> @]
     /\ ofoc' = [ofoc EXCEPT ![t] =
                   CASE next = "inner" -> "try"
                     [] next = "root" -> "root"
                     [] next = "f_release" /\ pc = "f_requestNode" ->
                          (IF ok THEN "to_root" ELSE "ret_err")
                     [] ends -> "none"
                     [] OTHER -> @]
     /\ ovOut' = CASE next = "return" -> [kind |-> "focused_ok"]
                   [] next = "throw" -> [kind |-> "focused_error"]
                   [] OTHER -> NoEvent
     /\ Quiet /\ cmOutcome' = "none"
     /\ UNCHANGED <<ovClient, rHighlight, rings, owait, ocl, oarm, hlCount, hideCount, ofail,
                    sessionVars, nonOverlayVars>>

FocusedCommandOk(t, ans) ==
  /\ Quiescent
  /\ opc[t] \in FocusedPcs
  /\ conn[ovClient] = "open"
  /\ FocusedSettle(t, TRUE, ans)

FocusedCommandFailed(t) ==
  /\ Quiescent
  /\ FocusedSettle(t, FALSE, 0)

\* -------------------------------------------- NetworkRecorder: the calls
nonNetVars == <<conn, handlers, logVars, callerVars, disposeVars, dOut, everReset, consoleVars,
                overlayVars, lastEv, sent, cmOutcome, ovOut>>

\* start(), getResponseBody() or getRequestPostData() is called:
\* `await this.#getClient()`, then the command is sent
RecorderCall(t, kind) ==
  /\ Quiescent
  /\ npc[t] = "idle"
  /\ \A u \in NetTasks : u < t => npc[u] # "idle"   \* a call takes the first free slot
  /\ IF nrClient # NoClient
       THEN /\ npc' = [npc EXCEPT ![t] = "n_command"]
            /\ nkind' = [nkind EXCEPT ![t] = kind]
            /\ ncl' = [ncl EXCEPT ![t] = nrClient]
            /\ nbase' = [nbase EXCEPT ![t] = Len(order)]
            /\ netEv' = NoEvent
            /\ UNCHANGED <<clientPromise, attempt, nrClient, nrAttached, attachedN, nwait>>
       ELSE /\ GetClientEnabled
            /\ GetClientEffect
            /\ CASE GetClientOutcome = "client" ->
                      /\ Adopt(client)
                      /\ npc' = [npc EXCEPT ![t] = "n_command"]
                      /\ nkind' = [nkind EXCEPT ![t] = kind]
                      /\ ncl' = [ncl EXCEPT ![t] = client]
                      /\ nbase' = [nbase EXCEPT ![t] = Len(order)]
                      /\ netEv' = NoEvent
                      /\ UNCHANGED nwait
                 [] GetClientOutcome = "throws" ->
                      /\ netEv' = Failure(kind)
                      /\ UNCHANGED <<nrClient, nrAttached, attachedN, npc, nkind, ncl, nbase,
                                     nwait>>
                 [] GetClientOutcome = "awaits" ->
                      /\ npc' = [npc EXCEPT ![t] = "n_client"]
                      /\ nkind' = [nkind EXCEPT ![t] = kind]
                      /\ nwait' = [nwait EXCEPT ![t] = GetClientTarget]
                      /\ nbase' = [nbase EXCEPT ![t] = Len(order)]
                      /\ netEv' = NoEvent
                      /\ UNCHANGED <<nrClient, nrAttached, attachedN, ncl>>
  /\ UNCHANGED <<capturing, requests, order, netOn, lastOf, client, nonNetVars>>

\* mutant of start(): the records are not cleared
StartDoneKeepsRecords(t) ==
  /\ capturing' = TRUE
  /\ netOn' = [netOn EXCEPT ![ncl[t]] = TRUE]
  /\ UNCHANGED <<requests, order, lastOf>>

\* start() after `await client.Network.enable({})`
StartDone(t) ==
  /\ requests' = <<>>
  /\ order' = <<>>
  /\ capturing' = TRUE
  /\ netOn' = [netOn EXCEPT ![ncl[t]] = TRUE]
  /\ lastOf' = NoHistory

\* the command of recorder call t succeeds
RecorderCommandOk(t) ==
  /\ Quiescent
  /\ npc[t] = "n_command"
  /\ conn[ncl[t]] = "open"
  /\ IF nkind[t] = "start"
       THEN /\ StartDone(t)
            /\ netEv' = [kind |-> "start_ok", before |-> GetRequests(requests, order),
                         base |-> nbase[t], restart |-> capturing]
       ELSE /\ netEv' = [kind |-> "body_ok"]
            /\ UNCHANGED <<requests, order, capturing, netOn, lastOf>>
  /\ npc' = [npc EXCEPT ![t] = "idle"]
  /\ nkind' = [nkind EXCEPT ![t] = "none"]
  /\ ncl' = [ncl EXCEPT ![t] = NoClient]
  /\ nbase' = [nbase EXCEPT ![t] = 0]
  /\ UNCHANGED <<nrClient, nrAttached, attachedN, nwait, sessionVars, nonNetVars>>

\* it fails: start() raises, a body getter returns null
RecorderCommandFailed(t) ==
  /\ npc[t] = "n_command"
  /\ conn[ncl[t]] # "open" \/ Quiescent
  /\ netEv' = Failure(nkind[t])
  /\ npc' = [npc EXCEPT ![t] = "idle"]
  /\ nkind' = [nkind EXCEPT ![t] = "none"]
  /\ ncl' = [ncl EXCEPT ![t] = NoClient]
  /\ nbase' = [nbase EXCEPT ![t] = 0]
  /\ UNCHANGED <<nrClient, capturing, requests, order, nrAttached, attachedN, netOn, nwait,
                 lastOf, sessionVars, nonNetVars>>

\* stop()
RecorderStop ==
  /\ Quiescent
  /\ capturing' = FALSE
  /\ netEv' = [kind |-> "stop", before |-> GetRequests(requests, order)]
  /\ UNCHANGED <<nrClient, requests, order, nrAttached, attachedN, netOn, npc, nkind, nwait,
                 ncl, nbase, lastOf, sessionVars, nonNetVars>>

\* mutant of clear(): the ordering list is kept
RecorderClearKeepsOrder ==
  /\ Quiescent
  /\ requests' = <<>>
  /\ lastOf' = NoHistory
  /\ netEv' = [kind |-> "clear", before |-> GetRequests(requests, order)]
  /\ UNCHANGED <<nrClient, capturing, order, nrAttached, attachedN, netOn, npc, nkind, nwait,
                 ncl, nbase, sessionVars, nonNetVars>>

\* clear()
RecorderClear ==
  /\ Quiescent
  /\ requests' = <<>>
  /\ order' = <<>>
  /\ lastOf' = NoHistory
  /\ netEv' = [kind |-> "clear", before |-> GetRequests(requests, order)]
  /\ UNCHANGED <<nrClient, capturing, nrAttached, attachedN, netOn, npc, nkind, nwait,
                 ncl, nbase, sessionVars, nonNetVars>>

\* lifecycle event e is pushed on connection c, where the Network domain is
\* enabled: every set of listeners the recorder has on c handles it
NetworkEvent(c, e) ==
  /\ Quiescent
  /\ conn[c] = "open"
  /\ netOn[c]
  /\ attachedN[c] > 0
  /\ LET p == NetEvents[e]
         st == HandleTimes(capturing, [requests |-> requests, order |-> order], p, attachedN[c])
     IN /\ requests' = st.requests
        /\ order' = st.order
        /\ lastOf' = IF capturing THEN [lastOf EXCEPT ![p.requestId][p.kind] = e] ELSE lastOf
        /\ netEv' = [kind |-> "event", ev |-> e, capturing |-> capturing,
                     known |-> p.requestId \in DOMAIN requests,
                     first |-> lastOf[p.requestId][p.kind] = 0,
                     old |-> IF p.requestId \in DOMAIN requests
                               THEN requests[p.requestId] ELSE NewRecord(p.requestId),
                     before |-> GetRequests(requests, order)]
  /\ UNCHANGED <<nrClient, capturing, nrAttached, attachedN, netOn, npc, nkind, nwait,
                 ncl, nbase, sessionVars, nonNetVars>>

\* ------------------------------------------------------------ specifications
Init ==
  /\ client = NoClient
  /\ clientPromise = NoClient
  /\ entries = <<>>
  /\ nextId = 1
  /\ attempt = [a \in Conns |-> "unused"]
  /\ conn = [c \in Conns |-> "none"]
  /\ handlers = [c \in Conns |-> FALSE]
  /\ cpc = [p \in Callers |-> "idle"]
  /\ cop = [p \in Callers |-> "none"]
  /\ cwait = [p \in Callers |-> NoClient]
  /\ cres = [p \in Callers |-> NoClient]
  /\ dpc = "idle"
  /\ dcl = NoClient
  /\ dOut = NoEvent
  /\ hist = <<>>
  /\ epochLast = [c \in Conns |-> 0]
  /\ everReset = FALSE
  /\ afterClear = "no"
  /\ prevLen = 0
  /\ cmClient = NoClient
  /\ subscription = <<>>
  /\ consoleListener = NoClient
  /\ exceptionListener = NoClient
  /\ attachedC = [c \in Conns |-> 0]
  /\ attachedE = [c \in Conns |-> 0]
  /\ tpc = [t \in ConsoleTasks |-> "idle"]
  /\ topt = [t \in ConsoleTasks |-> 0]
  /\ tcl = [t \in ConsoleTasks |-> NoClient]
  /\ twait = [t \in ConsoleTasks |-> NoClient]
  /\ lastEv = NoEvent
  /\ sent = <<>>
  /\ subsDone = 0
  /\ cmOutcome = "none"
  /\ ovClient = NoClient
  /\ timer = 0
  /\ timers = {}
  /\ decoratedNodes = {}
  /\ rHighlight = 0
  /\ rings = {}
  /\ opc = [t \in OverlayTasks |-> "idle"]
  /\ okind = [t \in OverlayTasks |-> "none"]
  /\ oin = [t \in OverlayTasks |-> 0]
  /\ owait = [t \in OverlayTasks |-> NoClient]
  /\ ocl = [t \in OverlayTasks |-> NoClient]
  /\ orest = [t \in OverlayTasks |-> [n \in Nodes |-> "-"]]
  /\ oarm = [t \in OverlayTasks |-> 0]
  /\ ofoc = [t \in OverlayTasks |-> "none"]
  /\ oq = <<>>
  /\ ovOut = NoEvent
  /\ hlCount = 0
  /\ ofail = "no"
  /\ hideCount = 0
  /\ nrClient = NoClient
  /\ capturing = FALSE
  /\ requests = <<>>
  /\ order = <<>>
  /\ nrAttached = FALSE
  /\ attachedN = [c \in Conns |-> 0]
  /\ netOn = [c \in Conns |-> FALSE]
  /\ npc = [t \in NetTasks |-> "idle"]
  /\ nkind = [t \in NetTasks |-> "none"]
  /\ nwait = [t \in NetTasks |-> NoClient]
  /\ ncl = [t \in NetTasks |-> NoClient]
  /\ nbase = [t \in NetTasks |-> 0]
  /\ netEv = NoEvent
  /\ lastOf = [id \in RequestIds |-> [k \in EventKinds |-> 0]]

ConnectSteps ==
  \E a \in Conns :
    \/ CdpOpened(a)
    \/ CdpFailed(a)
    \/ RuntimeEnabled(a)
    \/ RuntimeEnableFailed(a)
    \/ EnableStep(a)
    \/ ConnectDone(a)

\* concurrent first use of the connection; caller p always runs the same operation
OpOf(p) == CASE p % 3 = 1 -> "evaluate"
             [] p % 3 = 2 -> "captureScreenshot"
             [] OTHER -> "connect"

NextSession ==
  \/ \E p \in Callers : CallStart(p, OpOf(p))
  \/ ConnectSteps
  \/ \E p \in Callers : CommandOk(p)
  \/ \E p \in Callers : CommandFailed(p)
  \/ \E c \in Conns : Disconnect(c)
  \/ Dispose
  \/ \E ok \in BOOLEAN : DisposeClosed(ok)

SpecSession == Init /\ [][NextSession]_vars

\* the log buffer over the connection epochs of a session used by one caller
NextEpoch ==
  \/ \E op \in {"connect", "evaluate"} : CallStart(1, op)
  \/ ConnectSteps
  \/ CommandOk(1)
  \/ CommandFailed(1)
  \/ \E c \in Conns : Disconnect(c)
  \/ \E c \in Conns : OnConsoleAPICalled(c, SessionEventBound)
  \/ \E c \in Conns : OnExceptionThrown(c, SessionEventBound)
  \/ \E c \in Conns : OnLogEntryAdded(c, SessionEventBound)
  \/ ClearEntries
  \/ Dispose
  \/ \E ok \in BOOLEAN : DisposeClosed(ok)

SpecEpoch == Init /\ [][NextEpoch]_vars

\* a session whose callers start no call while a dispose() is in progress
NextDispose ==
  \/ \E p \in Callers : dpc = "idle" /\ CallStart(p, OpOf(p))
  \/ ConnectSteps
  \/ \E p \in Callers : CommandOk(p)
  \/ \E p \in Callers : CommandFailed(p)
  \/ \E c \in Conns : Disconnect(c)
  \/ Dispose
  \/ \E ok \in BOOLEAN : DisposeClosed(ok)

SpecDispose == Init /\ [][NextDispose]_vars

\* a long burst of log events on a session used by one caller
NextLog ==
  \/ CallStart(1, "connect")
  \/ ConnectSteps
  \/ \E c \in Conns : Disconnect(c)
  \/ \E c \in Conns : OnConsoleAPICalled(c, LogEventBound)
  \/ \E c \in Conns : OnExceptionThrown(c, VaryLen)
  \/ \E c \in Conns : OnLogEntryAdded(c, VaryLen)

SpecLog == Init /\ [][NextLog]_vars

\* log events carrying every kind of timestamp, on a session used by one caller
NextTimestamp ==
  \/ CallStart(1, "connect")
  \/ ConnectSteps
  \/ \E c \in Conns : Disconnect(c)
  \/ \E c \in Conns, k \in LogKinds, v \in TimestampSamples :
        Len(hist) < SessionEventBound /\ RecordAt(c, k, v)
  \/ ClearEntries

SpecTimestamp == Init /\ [][NextTimestamp]_vars

\* concurrent subscribe()/unsubscribe() calls over a session that connects, drops
\* and reconnects
ConcurrentInputs == {3, 4}
ConcurrentTypes == {"log", "error"}

NextConsole ==
  \/ \E t \in ConsoleTasks, o \in ConcurrentInputs : SubscribeStart(t, o)
  \/ \E t \in ConsoleTasks : SubscribeFinish(t)
  \/ \E t \in ConsoleTasks : UnsubscribeStart(t)
  \/ ConnectSteps
  \/ \E c \in Conns : Disconnect(c)
  \/ \E c \in Conns, type \in ConcurrentTypes : UpstreamConsole(c, type)
  \/ \E c \in Conns : UpstreamException(c, TRUE)

SpecConsole == Init /\ [][NextConsole]_vars

\* one subscriber at a time, every kind of subscription and of upstream event
NextStream ==
  \/ \E o \in 1..Len(SubscribeInputs) : SubscribeStart(1, o)
  \/ SubscribeFinish(1)
  \/ UnsubscribeStart(1)
  \/ ConnectSteps
  \/ \E c \in Conns : Disconnect(c)
  \/ \E c \in Conns, type \in ConsoleTypes : UpstreamConsole(c, type)
  \/ \E c \in Conns, hasDetails \in BOOLEAN : UpstreamException(c, hasDetails)

SpecStream == Init /\ [][NextStream]_vars

\* no highlight(), highlightFocused() or hide() call is in progress
NoCall == \A u \in OverlayTasks : okind[u] \notin {"highlight", "focused", "hide"}

\* overlay calls made one after the other, the auto-hide timers running, any
\* command failing
NextOverlaySeq ==
  \/ \E t \in OverlayTasks, i \in 1..Len(HighlightInputs) : NoCall /\ HighlightStart(t, i)
  \/ \E t \in OverlayTasks : NoCall /\ FocusedStart(t)
  \/ \E t \in OverlayTasks : NoCall /\ HideStart(t)
  \/ \E t \in OverlayTasks : HighlightProceed(t)
  \/ ConnectSteps
  \/ \E t \in OverlayTasks : OverlayCommandOk(t)
  \/ \E t \in OverlayTasks : OverlayCommandFailed(t)
  \/ \E t \in OverlayTasks, ans \in {0, 2} : FocusedCommandOk(t, ans)
  \/ \E t \in OverlayTasks : FocusedCommandFailed(t)
  \/ \E t \in OverlayTasks, n \in Nodes : RestoreOk(t, n)
  \/ \E t \in OverlayTasks, n \in Nodes : RestoreFailed(t, n)
  \/ \E t \in OverlayTasks, id \in TimerIds : TimerFire(t, id)

SpecOverlaySeq == Init /\ [][NextOverlaySeq]_vars

\* highlight() and hide() calls made one after the other, any command of
\* highlight() failing, the restorations of hide() succeeding
NextOverlayFail ==
  \/ \E t \in OverlayTasks, i \in 1..Len(HighlightInputs) : NoCall /\ HighlightStart(t, i)
  \/ \E t \in OverlayTasks : NoCall /\ HideStart(t)
  \/ \E t \in OverlayTasks : HighlightProceed(t)
  \/ ConnectSteps
  \/ \E t \in OverlayTasks : OverlayCommandOk(t)
  \/ \E t \in OverlayTasks : OverlayCommandFailed(t)
  \/ \E t \in OverlayTasks, n \in Nodes : RestoreOk(t, n)
  \/ \E t \in OverlayTasks, id \in TimerIds : TimerFire(t, id)

SpecOverlayFail == Init /\ [][NextOverlayFail]_vars

\* highlight() calls on two nodes that may overlap, so that two nodes can be
\* decorated at once, and hide() calls, any command failing
RestoreInputs == {2, 7}

NextRestore ==
  \/ \E t \in OverlayTasks, i \in RestoreInputs : HighlightStart(t, i)
  \/ \E t \in OverlayTasks : HideStart(t)
  \/ \E t \in OverlayTasks : HighlightProceed(t)
  \/ ConnectSteps
  \/ \E t \in OverlayTasks : OverlayCommandOk(t)
  \/ \E t \in OverlayTasks : OverlayCommandFailed(t)
  \/ \E t \in OverlayTasks, n \in Nodes : RestoreOk(t, n)
  \/ \E t \in OverlayTasks, n \in Nodes : RestoreFailed(t, n)
  \/ \E t \in OverlayTasks, id \in TimerIds : TimerFire(t, id)

SpecRestore == Init /\ [][NextRestore]_vars

\* the same calls, with what the runtime guarantees: a pending timer expires, a
\* command sent is answered or fails, a continuation that can run does run
SpecTimer ==
  /\ Init /\ [][NextOverlayFail]_vars
  /\ WF_vars(\E t \in OverlayTasks, id \in TimerIds : TimerFire(t, id))
  /\ WF_vars(\E t \in OverlayTasks : OverlayCommandOk(t) \/ OverlayCommandFailed(t))
  /\ WF_vars(\E t \in OverlayTasks, n \in Nodes : RestoreOk(t, n))
  /\ WF_vars(\E t \in OverlayTasks : HighlightProceed(t))
  /\ WF_vars(ConnectSteps)

\* highlight(), highlightFocused() and hide() calls that may overlap, the
\* auto-hide timers running, every command succeeding
OverlapInputs == {1, 2}

NextOverlay ==
  \/ \E t \in OverlayTasks, i \in OverlapInputs : HighlightStart(t, i)
  \/ \E t \in OverlayTasks : FocusedStart(t)
  \/ \E t \in OverlayTasks : HideStart(t)
  \/ \E t \in OverlayTasks : HighlightProceed(t)
  \/ ConnectSteps
  \/ \E t \in OverlayTasks : OverlayCommandOk(t)
  \/ \E t \in OverlayTasks, ans \in {0, 2} : FocusedCommandOk(t, ans)
  \/ \E t \in OverlayTasks, n \in Nodes : RestoreOk(t, n)
  \/ \E t \in OverlayTasks, id \in TimerIds : TimerFire(t, id)

SpecOverlay == Init /\ [][NextOverlay]_vars

\* the server's background work up to shutdown: a console subscription with the
\* default options, highlights of one node made one after the other with the
\* default duration, every command succeeding, and dispose()
NextShutdown ==
  \/ SubscribeStart(1, 1)
  \/ SubscribeFinish(1)
  \/ NoCall /\ HighlightStart(1, 1)
  \/ HighlightProceed(1)
  \/ ConnectSteps
  \/ OverlayCommandOk(1)
  \/ \E n \in Nodes : RestoreOk(1, n)
  \/ \E id \in TimerIds : TimerFire(1, id)
  \/ Dispose
  \/ \E ok \in BOOLEAN : DisposeClosed(ok)

SpecShutdown == Init /\ [][NextShutdown]_vars

\* one recorder call at a time over a session that connects, drops and
\* reconnects, the page pushing lifecycle events in any order
NextRecorder ==
  \/ \E kind \in {"start", "body"} : RecorderCall(1, kind)
  \/ RecorderCommandOk(1)
  \/ RecorderCommandFailed(1)
  \/ RecorderStop
  \/ RecorderClear
  \/ ConnectSteps
  \/ \E c \in Conns : Disconnect(c)
  \/ \E c \in Conns, e \in 1..Len(NetEvents) : NetworkEvent(c, e)

SpecRecorder == Init /\ [][NextRecorder]_vars

\* overlapping recorder calls, first calls included, over a session that
\* connects, drops and reconnects
RaceEvents == {3, 5}

NextRecorderRace ==
  \/ \E t \in NetTasks, kind \in {"start", "body"} : RecorderCall(t, kind)
  \/ \E t \in NetTasks : RecorderCommandOk(t)
  \/ \E t \in NetTasks : RecorderCommandFailed(t)
  \/ ConnectSteps
  \/ \E c \in Conns : Disconnect(c)
  \/ \E c \in Conns, e \in RaceEvents : NetworkEvent(c, e)

SpecRecorderRace == Init /\ [][NextRecorderRace]_vars

Spec == SpecSession

\* ------------------------------------------------------------------ claims
Started == {a \in Conns : attempt[a] # "unused"}
Opened == {c \in Conns : conn[c] # "none"}

\* C1: as long as the session has seen neither dispose() nor a disconnect, the
\* connect routine has run exactly once however many callers asked for the
\* client, at most one connection was opened, and every caller that obtained a
\* client obtained that one, which is the client the session holds.
C1_OneSharedAttempt ==
  ~everReset =>
    /\ (\E p \in Callers : cpc[p] # "idle") => Cardinality(Started) = 1
    /\ Cardinality(Started) <= 1
    /\ Cardinality(Opened) <= 1
    /\ client # NoClient => client \in Opened /\ attempt[client] = "resolved"
    /\ \A p \in Callers : cres[p] # NoClient => cres[p] = client
    /\ \A p \in Callers : cpc[p] = "await" => cwait[p] = clientPromise

\* two callers awaited the promise of the same attempt and both hold its client
C1_Witness ==
  /\ ~everReset
  /\ client = 1
  /\ \E p, q \in Callers : p # q /\ cwait[p] = 1 /\ cres[p] = 1 /\ cwait[q] = 1 /\ cres[q] = 1

\* C2: a disconnect event resets the connection reference, the pending attempt,
\* the log buffer and the id counter, and from then on the session never holds
\* the dropped connection, so that the next operation opens a fresh one.
C2_DisconnectResets ==
  /\ [][\A c \in Conns :
          (conn[c] = "open" /\ conn'[c] = "lost") =>
             /\ client' = NoClient
             /\ clientPromise' = NoClient
             /\ entries' = <<>>
             /\ nextId' = 1]_vars
  /\ [](\A c \in Conns : conn[c] = "lost" => client # c /\ clientPromise # c)

Params(hasLimit, limit, hasKinds, kinds, hasNewest, newestFirst) ==
  [hasLimit |-> hasLimit, limit |-> limit, hasKinds |-> hasKinds, kinds |-> kinds,
   hasNewest |-> hasNewest, newestFirst |-> newestFirst]

Window == SubSeq(hist, Len(hist) - MAX_BUFFERED_ENTRIES + 1, Len(hist))

\* C3: once more than 500 events have been recorded since the last reset,
\* getEntries without kind filter and with limit >= 500 returns the 500 most
\* recently recorded entries, oldest first when newestFirst is false and newest
\* first otherwise, and their ids increase strictly in recording order.
C3_LastFiveHundred ==
  Len(hist) > MAX_BUFFERED_ENTRIES =>
    /\ \A limit \in {MAX_BUFFERED_ENTRIES, MAX_BUFFERED_ENTRIES + 1, 2 * MAX_BUFFERED_ENTRIES} :
       \A hasKinds \in BOOLEAN :
         /\ GetEntries(entries, Params(TRUE, limit, hasKinds, <<>>, TRUE, FALSE)) = Window
         /\ GetEntries(entries, Params(TRUE, limit, hasKinds, <<>>, TRUE, TRUE)) = Reverse(Window)
         /\ GetEntries(entries, Params(TRUE, limit, hasKinds, <<>>, FALSE, TRUE)) = Reverse(Window)
    /\ \A i \in 1..(MAX_BUFFERED_ENTRIES - 1) : Window[i].id < Window[i + 1].id

C3_Witness ==
  /\ Len(hist) >= MAX_BUFFERED_ENTRIES + 2
  /\ hist[1].kind = "exception"

\* C4: the buffer never holds more than 500 entries, and a recording step keeps
\* the newest entries: what it drops is taken from the front of the buffer.
C4_BoundedFifo ==
  /\ [](Len(entries) <= MAX_BUFFERED_ENTRIES)
  /\ [][(hist' # hist /\ hist' # <<>>) =>
          LET all == Append(entries, hist'[Len(hist')])
              kept == IF Len(all) > MAX_BUFFERED_ENTRIES THEN MAX_BUFFERED_ENTRIES ELSE Len(all)
          IN entries' = SubSeq(all, Len(all) - kept + 1, Len(all))]_vars

\* the buffer is full and exactly the first entry has been evicted
C4_Witness ==
  /\ Len(entries) = MAX_BUFFERED_ENTRIES
  /\ entries[1].id = 2

SampleParams ==
  {Params(hl, l, hk, k, hn, n) :
     hl \in BOOLEAN, l \in {0, 1, 20, MAX_BUFFERED_ENTRIES},
     hk \in BOOLEAN, k \in {<<>>, <<"console">>, <<"exception", "log">>},
     hn \in BOOLEAN, n \in BOOLEAN}

\* C5: right after clearEntries() every getEntries call returns the empty list
\* and the id counter is 1; the entry recorded next has id 1.
C5_ClearResets ==
  /\ afterClear = "cleared" =>
       /\ nextId = 1
       /\ \A prm \in SampleParams : GetEntries(entries, prm) = <<>>
  /\ afterClear = "recorded" => Len(entries) = 1 /\ entries[1].id = 1

\* an entry was recorded after a clearEntries() that emptied a non-empty buffer
C5_Witness ==
  /\ afterClear = "recorded"
  /\ prevLen > 0

\* C6 as stated: within the epoch of connection c, every recorded entry gets an
\* id greater than the id of the entry recorded before it in that epoch.
C6_EpochIdsIncrease ==
  [][\A c \in Conns, k \in LogKinds :
       (Record(c, k) /\ epochLast[c] # 0) =>
          entries'[Len(entries')].id > epochLast[c]]_vars

\* C6 amended: between two resets of the buffer (clearEntries() or a disconnect
\* event) the ids given to recorded entries are unique and strictly increasing
\* in recording order, and so are the ids held in the buffer.
C6_IdsIncreaseBetweenResets ==
  /\ \A i, j \in 1..Len(hist) : i < j => hist[i].id < hist[j].id
  /\ \A i, j \in 1..Len(entries) : i < j => entries[i].id < entries[j].id

C6_Witness ==
  /\ Len(hist) >= 2
  /\ \E c \in Conns : conn[c] = "open" /\ epochLast[c] = hist[Len(hist)].id
\* C7: however many subscribe() calls have completed or overlap, a connection
\* that can deliver events carries at most one console listener and at most one
\* exception listener of the manager, and an upstream console or exception
\* event produces at most one notification.
C7_NoDuplicateListeners ==
  /\ \A c \in Conns : conn[c] = "open" => attachedC[c] <= 1 /\ attachedE[c] <= 1
  /\ Len(sent) <= 1

\* after two subscribe() calls with no unsubscribe() in between, an exception
\* event is delivered to the manager and yields its one notification
C7_Witness ==
  /\ subsDone = 2
  /\ lastEv.kind = "exception"
  /\ lastEv.listeners = 1
  /\ Len(sent) = 1

\* C8 as stated: while a subscription is active, an upstream console event yields
\* exactly one notification, of the mapped severity, if the stream level of its
\* type is among the subscription's levels, and none otherwise.
C8_LevelFilter ==
  (lastEv.kind = "console" /\ subscription # <<>>) =>
     IF Includes(subscription[1].levels, mapConsoleTypeToStreamLevel(lastEv.type))
       THEN /\ Len(sent) = 1
            /\ sent[1].level = mapConsoleTypeToLoggingLevel(lastEv.type)
       ELSE sent = <<>>

\* C9 as stated, second half: an unsubscribe() call made while no subscription
\* is active never ends by raising.
C9_InactiveUnsubscribeQuiet == cmOutcome # "unsub_error_inactive"

\* C10 as stated: when the second of two highlight() calls made one after the
\* other returns (its auto-hide timer armed and not yet expired), the remote
\* overlay shows its node, exactly one auto-hide timer is pending and it is the
\* one the manager holds, the manager tracks no other decorated node, and no
\* decoration is ever applied while a restoration is still in progress.
C10_SequentialHighlights ==
  /\ []((ovOut.kind = "highlight_ok" /\ hlCount = 2 /\ ovOut.timed /\ ~ovOut.fired) =>
          /\ rHighlight = ovOut.node
          /\ timer # 0
          /\ timers = {timer}
          /\ decoratedNodes \subseteq {ovOut.node})
  /\ [][\A n \in Nodes : (n \notin rings /\ n \in rings') =>
             \A t \in OverlayTasks : opc[t] # "restore"]_vars

\* C11 as stated: whatever the interleaving of highlight(), highlightFocused(),
\* hide() and timer expiry, at most one auto-hide timer is pending, at most one
\* element carries the decoration and the manager tracks at most one decorated
\* node.
C11_AtMostOneHighlight ==
  /\ Cardinality(timers) <= 1
  /\ Cardinality(rings) <= 1
  /\ Cardinality(decoratedNodes) <= 1

\* C12: when a hide() call returns, whether or not a highlight was active and
\* whether or not the overlay ever had a connection, no auto-hide timer is
\* pending and no node is tracked as decorated; and hide() has nothing to raise:
\* the restoration it awaits outside any try block only runs when nodes are
\* decorated, and then the overlay already holds its client.
C12_HideIdempotent ==
  /\ (ovOut.kind = "hide_done" /\ ovOut.by = "hide") =>
        /\ timer = 0
        /\ timers = {}
        /\ decoratedNodes = {}
  /\ decoratedNodes # {} => ovClient # NoClient

\* a second hide() in a row returns, having sent Overlay.hideHighlight
C12_Witness ==
  /\ ovOut.kind = "hide_done"
  /\ ovOut.by = "hide"
  /\ hideCount = 2
  /\ ovClient # NoClient

\* C13: a lifecycle event handled while capturing is false leaves the result of
\* getRequests() as it was, and stop() leaves capturing false and the result of
\* getRequests() as it was.
C13_GateClosed ==
  /\ (netEv.kind = "event" /\ ~netEv.capturing) =>
        GetRequests(requests, order) = netEv.before
  /\ netEv.kind = "stop" =>
        ~capturing /\ GetRequests(requests, order) = netEv.before

\* after stop(), with records held, a loadingFailed event is handled
C13_Witness ==
  /\ netEv.kind = "event"
  /\ ~netEv.capturing
  /\ NetEvents[netEv.ev].kind = "loadingFailed"
  /\ Len(netEv.before) = 2

\* C14: when start() completes successfully, no record is held (getRequests()
\* is empty, the map and the ordering list are empty) and capturing is true.
C14_StartResets ==
  netEv.kind = "start_ok" =>
    /\ GetRequests(requests, order) = <<>>
    /\ DOMAIN requests = {}
    /\ order = <<>>
    /\ capturing

\* a start() made while capturing, without stop(), completes after an event
\* added a record while it was awaiting Network.enable
C14_Witness ==
  /\ netEv.kind = "start_ok"
  /\ netEv.restart
  /\ netEv.base > 0
  /\ Len(netEv.before) > netEv.base

\* what a record holds of event p once p has been merged into it
Carries(rec, p) ==
  CASE p.kind = "requestWillBeSent" ->
         /\ rec.url = p.url
         /\ rec.method = p.method
         /\ p.type # NoStr => rec.resourceType = p.type
         /\ p.timestamp # NoNum => rec.startTime = p.timestamp
         /\ (p.hasPostData /\ p.postLen # NoNum) => rec.requestBodySize = p.postLen
    [] p.kind = "responseReceived" ->
         /\ rec.status = p.status
         /\ OrFlag(p.fromDiskCache, p.fromServiceWorker) # NoStr =>
              rec.fromCache = OrFlag(p.fromDiskCache, p.fromServiceWorker)
    [] p.kind = "loadingFinished" ->
         /\ rec.encodedDataLength = p.encodedDataLength
         /\ rec.endTime = p.timestamp
    [] p.kind = "loadingFailed" ->
         /\ rec.errorText = p.errorText
         /\ rec.endTime = p.timestamp

\* C15: an event handled while capturing leaves a record for its request id;
\* the ordering list never names an id twice and names exactly the ids that
\* have a record; and a record holds what the latest event of each kind
\* merged into it carried, whatever the order in which the events arrived.
C15_OneMergedRecord ==
  /\ (netEv.kind = "event" /\ netEv.capturing) =>
        NetEvents[netEv.ev].requestId \in DOMAIN requests
  /\ \A i, j \in 1..Len(order) : i # j => order[i] # order[j]
  /\ {order[i] : i \in 1..Len(order)} = DOMAIN requests
  /\ \A id \in DOMAIN requests : requests[id].requestId = id
  /\ \A id \in RequestIds, k \in EventKinds :
        lastOf[id][k] # 0 =>
           id \in DOMAIN requests /\ Carries(requests[id], NetEvents[lastOf[id][k]])

\* the requestWillBeSent event of request 1 arrives after its responseReceived
\* and its loadingFinished events, which created the record
C15_Witness ==
  /\ netEv.kind = "event"
  /\ netEv.capturing
  /\ netEv.ev = 1
  /\ netEv.known
  /\ netEv.first
  /\ lastOf[1]["responseReceived"] # 0
  /\ lastOf[1]["loadingFinished"] # 0

StrFields == {"url", "method", "resourceType", "fromCache", "errorText"}
NumFields == {"startTime", "requestBodySize", "status", "encodedDataLength", "endTime"}

\* C16 as stated: when an event is merged into a record that exists, no field
\* of the record that had a value is left undefined.
C16_NoFieldLost ==
  (netEv.kind = "event" /\ netEv.capturing /\ netEv.known) =>
     LET id == NetEvents[netEv.ev].requestId
     IN /\ \A f \in StrFields : netEv.old[f] # NoStr => requests[id][f] # NoStr
        /\ \A f \in NumFields : netEv.old[f] # NoNum => requests[id][f] # NoNum

ListSamples ==
  {ListArgs(l, hm, <<"POST">>, f, ht, <<"XHR">>) :
     l \in {1, 20}, hm \in BOOLEAN, f \in BOOLEAN, ht \in BOOLEAN}

\* the records the listing contract selects
Listed(request, a) ==
  /\ a.hasMethods => Includes(a.methods, request.method)
  /\ a.hasTypes => Includes(a.resourceTypes, request.resourceType)
  /\ a.onlyFailed =>
       \/ request.status # NoNum /\ request.status >= 400
       \/ request.errorText \notin {NoStr, ""}

\* C17 as stated: network_list_requests returns the first `limit`, in
\* first-seen order, of the records that pass every given filter: method among
\* methods, resourceType among resourceTypes, and with onlyFailed a status of
\* 400 or more or a non-empty error text.
C17_ListingContract ==
  \A a \in ListSamples :
     LET recs == GetRequests(requests, order)
         wanted == SelectSeq(recs, LAMBDA request : Listed(request, a))
     IN ListRequests(recs, a) =
          SubSeq(wanted, 1, IF a.limit < Len(wanted) THEN a.limit ELSE Len(wanted))

\* buffers up to this length are compared entry by entry in C18
ListLen == 22

ListParams ==
  {Params(hl, l, hk, k, hn, n) :
     hl \in BOOLEAN, l \in {1, 2, 20},
     hk \in BOOLEAN, k \in {<<>>, <<"console">>, <<"exception", "log">>},
     hn \in BOOLEAN, n \in BOOLEAN}

\* C18: getEntries returns only entries whose kind is among kinds (every entry
\* when kinds is absent or empty), exactly the min(limit, matching) most
\* recently recorded of them, newest first unless newestFirst is false; limit
\* defaults to 20 and newestFirst to true.
C18_LogListing ==
  Len(entries) <= ListLen =>
    \A prm \in ListParams :
       LET out == GetEntries(entries, prm)
           limit == IF prm.hasLimit THEN prm.limit ELSE 20
           wantedKinds == IF prm.hasKinds /\ prm.kinds # <<>>
                            THEN {prm.kinds[i] : i \in 1..Len(prm.kinds)}
                            ELSE LogKinds
           matching == SelectSeq(entries, LAMBDA en : en.kind \in wantedKinds)
           n == IF limit < Len(matching) THEN limit ELSE Len(matching)
           oldestFirst == prm.hasNewest /\ ~prm.newestFirst
       IN /\ Len(out) = n
          /\ \A i \in 1..n :
               out[i] = IF oldestFirst THEN matching[Len(matching) - n + i]
                                       ELSE matching[Len(matching) + 1 - i]

\* 21 entries of all three kinds are buffered: the default limit cuts one off
C18_Witness ==
  /\ Len(entries) = 21
  /\ \A k \in LogKinds : \E i \in 1..21 : entries[i].kind = k
  /\ entries[1].kind # entries[21].kind

\* C19: dispose() never raises, also when close() fails; when it returns the
\* session holds neither a connection reference nor a pending connect attempt;
\* a dispose() that finds no connection closes nothing, and leaves the session
\* as it was when there is no attempt either (as after an earlier dispose()).
C19_DisposeContract ==
  /\ [](dOut.kind # "raised")
  /\ [](dOut.kind = "returned" => client = NoClient /\ clientPromise = NoClient)
  /\ [][(dOut'.kind = "returned" /\ ~dOut'.closing) =>
          /\ conn' = conn
          /\ clientPromise = NoClient => UNCHANGED <<sessionVars, logVars>>]_vars


\* C20 as stated: when dispose() returns no overlay auto-hide timer is pending
\* and no console or exception listener of the stream manager is registered.
C20_DisposeStopsBackgroundWork ==
  dOut.kind = "returned" =>
     /\ timer = 0
     /\ timers = {}
     /\ consoleListener = NoClient
     /\ exceptionListener = NoClient
     /\ \A c \in Conns : attachedC[c] = 0 /\ attachedE[c] = 0

\* C21 as stated: disposal ends the connection epoch as a disconnect does: once
\* dispose() has closed connection d, the first entry recorded on a connection
\* opened after it has id 1 and the buffer holds no entry of an earlier
\* connection, i.e. nothing but that entry.
C21_DisposeEndsEpoch ==
  [][\A c \in Conns, k \in LogKinds :
       (/\ Record(c, k)
        /\ epochLast[c] = 0
        /\ \E d \in Conns : d < c /\ conn[d] = "closed") =>
          entries' = <<[id |-> 1, kind |-> k]>>]_vars

\* no hide() started by a timer is in progress
NoCallback == \A t \in OverlayTasks : okind[t] # "timer"

\* C22 as stated: a highlight() that raises leaves the overlay valid and usable:
\* at most one timer is pending and every decorated node is tracked; a hide()
\* that follows returns the overlay to idle; a highlight() that follows ends as
\* one made from idle: its node highlighted and alone decorated, its timer the
\* only one pending.
C22_FailedHighlightKeepsOverlayUsable ==
  /\ ovOut.kind = "highlight_error" =>
        /\ Cardinality(timers) <= 1
        /\ NoCallback => rings \subseteq decoratedNodes
  /\ (ovOut.kind = "hide_done" /\ ovOut.by = "hide" /\ ofail = "following") =>
        /\ timer = 0 /\ timers = {}
        /\ decoratedNodes = {}
        /\ NoCallback => rings = {}
  /\ (ovOut.kind = "highlight_ok" /\ ofail = "following" /\ ~ovOut.fired) =>
        /\ rHighlight = ovOut.node
        /\ decoratedNodes \subseteq {ovOut.node}
        /\ rings = decoratedNodes
        /\ IF ovOut.timed THEN timer # 0 /\ timers = {timer} ELSE timers = {}

\* C23 as stated: no call of a console or exception listener raises, whatever
\* the upstream event carries: an exception event without exceptionDetails is
\* handled like any other.
C23_ListenersNeverThrow ==
  lastEv.kind = "exception" => lastEv.type # "throws"

\* C24: a highlight() that returns has armed its auto-hide timer exactly when
\* durationMs (120000 when absent) is greater than 0, and otherwise leaves no
\* timer pending; a pending timer eventually expires and its hide() brings the
\* overlay back to idle: no timer pending, no node decorated.
C24_TimerArmedAndExpires ==
  /\ [](ovOut.kind = "highlight_ok" =>
          LET o == HighlightInputs[ovOut.input]
          IN IF o.hasDuration => o.durationMs > 0
               THEN ~ovOut.fired => timer # 0 /\ timers = {timer}
               ELSE timer = 0 /\ timers = {})
  /\ (timers # {}) ~> (timer = 0 /\ timers = {} /\ decoratedNodes = {})

\* the hide() started by an expired timer has returned and the overlay is idle
C24_Witness ==
  /\ ovOut.kind = "hide_done"
  /\ ovOut.by = "timer"
  /\ timer = 0 /\ timers = {} /\ decoratedNodes = {} /\ rings = {}
  /\ \A t \in OverlayTasks : opc[t] = "idle"

\* the target the options of a highlight() call name: the nodeId when given,
\* otherwise the selector's first match (0: none)
Target(i) ==
  LET o == HighlightInputs[i]
  IN IF o.nodeId # 0 THEN o.nodeId ELSE IF o.hasSelector THEN o.matches ELSE 0

\* C25: highlight() works on the given nodeId, also when a selector is given
\* too, and otherwise on the selector's first match; once it has its connection
\* it raises the not-found error when the selector matches nothing and the
\* invalid-arguments error when neither is given, and in both cases it has
\* applied no remote highlight, decorated no node and armed no timer.
C25_TargetResolution ==
  /\ [](ovOut.kind = "highlight_ok" =>
          Target(ovOut.input) # 0 /\ ovOut.node = Target(ovOut.input))
  /\ [](ovOut.kind = "highlight_error" =>
          LET o == HighlightInputs[ovOut.input]
          IN /\ ovOut.error = "no_target" <=>
                  (o.nodeId = 0 /\ ~o.hasSelector /\ ovOut.error # "connect")
             /\ ovOut.error = "no_match" =>
                  o.nodeId = 0 /\ o.hasSelector /\ o.matches = 0
             /\ (o.nodeId = 0 /\ o.hasSelector /\ o.matches = 0) =>
                  ovOut.error \in {"no_match", "connect", "command"}
             /\ ovOut.error \in {"no_target", "no_match"} =>
                  timer = 0 /\ timers = {} /\ decoratedNodes = {})
  /\ [][\A t \in OverlayTasks :
          /\ (opc[t] = "highlightNode" /\ opc'[t] = "ring_resolve") =>
                rHighlight' = Target(oin[t])
          /\ (opc[t] = "ring_call" /\ decoratedNodes' # decoratedNodes) =>
                decoratedNodes' = decoratedNodes \cup {Target(oin[t])}
          /\ (okind[t] = "highlight" /\ Target(oin[t]) = 0) =>
                /\ opc'[t] \notin {"highlightNode", "ring_resolve", "ring_call"}
                /\ oarm'[t] = 0]_vars

\* a highlight() given both a nodeId and a selector matching another node has
\* returned with the nodeId's node highlighted, right after a call that raised
C25_Witness ==
  /\ ovOut.kind = "highlight_ok"
  /\ ovOut.input = 7
  /\ ovOut.node = 1
  /\ rHighlight = 1
  /\ ofail = "following"

\* task t takes a step of its own
Acts(t) == opc'[t] # opc[t] \/ orest'[t] # orest[t]

RingPcs == {"ring_resolve", "ring_call", "ring_release"}

\* C26: no step of hide() raises, whether a restoration or hideHighlight fails
\* in it; hide() sends the restoration of every decorated node at once and the
\* end of one restoration, failed or not, leaves the others going; no step of
\* the decoration raises in highlight(), which goes on to arm its timer when the
\* duration is positive and returns normally.
C26_FailuresStayInside ==
  [][\A t \in OverlayTasks :
       /\ (opc[t] \in {"restore", "hideHighlight"} /\ Acts(t)) =>
             /\ ovOut'.kind \in {"none", "hide_done"}
             /\ opc'[t] \in {"restore", "hideHighlight", "hidden", "idle"}
       /\ (opc[t] # "restore" /\ opc'[t] = "restore") =>
             \A n \in decoratedNodes :
                /\ orest'[t][n] = "resolve"
                /\ \E i \in 1..Len(oq') : oq'[i] = <<t, n>>
       /\ \A n \in Nodes :
             (opc[t] = "restore" /\ orest[t][n] # "-" /\ orest'[t][n] = "-") =>
                \A other \in Nodes \ {n} : orest'[t][other] = orest[t][other]
       /\ (opc[t] \in RingPcs /\ Acts(t)) =>
             /\ ovOut'.kind \in {"none", "highlight_ok"}
             /\ opc'[t] \notin RingPcs =>
                  /\ rHighlight' = rHighlight
                  /\ Duration(HighlightInputs[oin[t]]) > 0 =>
                        timer' # 0 /\ timer' \in timers' /\ timer' \notin timers
       ]_vars

\* a hide() restoring two nodes goes on with node 2 after the restoration of
\* node 1 has failed and left its ring in the page
C26_Witness ==
  \E t \in OverlayTasks :
     /\ opc[t] = "restore"
     /\ orest[t][1] = "-"
     /\ 1 \in rings
     /\ orest[t][2] \in {"call", "release"}

\* highlightFocused() of task t calls highlight() with input i in this step
Delegates(t, i) == okind[t] = "focused" /\ okind'[t] = "highlight" /\ oin'[t] = i

\* C27: highlightFocused() calls highlight() on the focused element's node when
\* DOM.requestNode names one; when Runtime.evaluate names no object, when
\* DOM.requestNode names node 0 and when DOM.requestNode fails, it calls
\* highlight() on the document root (after releasing the object group in the
\* last two cases) and raises nothing of its own.
C27_FocusedFallsBackToRoot ==
  [][\A t \in OverlayTasks :
       /\ (opc[t] = "f_evaluate" /\ Acts(t)) =>
             \/ ovOut'.kind = "focused_error"
             \/ opc'[t] = "f_requestNode"
             \/ Delegates(t, FocusRootInput)
       /\ (opc[t] = "f_requestNode" /\ Acts(t)) =>
             \/ Delegates(t, FocusNodeInput)
             \/ opc'[t] = "f_release" /\ ofoc'[t] = "to_root"
       /\ (opc[t] = "f_release" /\ ofoc[t] = "to_root" /\ Acts(t)) =>
             Delegates(t, FocusRootInput)
  ]_vars

\* recorder call t is a body getter taking a step, or one that ends in it
BodyStep(t) ==
  \/ nkind[t] = "body" /\ (npc'[t] # npc[t] \/ nkind'[t] # nkind[t])
  \/ nkind[t] = "none" /\ nkind'[t] = "body"
  \/ netEv'.kind \in {"body_ok", "body_null"}

\* C28: getResponseBody() and getRequestPostData() send their command once they
\* hold a client, whatever capturing is; they end with the answer or with null,
\* never with an error; no step of theirs changes the records, the ordering
\* list or the capturing flag.
C28_BodyGettersAreSafe ==
  [][\A t \in NetTasks :
       BodyStep(t) =>
         /\ requests' = requests /\ order' = order /\ capturing' = capturing
         /\ netEv'.kind \in {"none", "body_ok", "body_null"}
         /\ (nkind[t] = "none" /\ nkind'[t] = "body" /\ nrClient # NoClient) =>
               npc'[t] = "n_command" /\ ncl'[t] = nrClient
         /\ (nkind[t] = "body" /\ nkind'[t] = "none") =>
               netEv'.kind \in {"body_ok", "body_null"}
  ]_vars

\* a body getter has returned null, its connection gone, while the recorder is
\* not capturing and holds records
C28_Witness ==
  /\ netEv.kind = "body_null"
  /\ ~capturing
  /\ order # <<>>
  /\ nrClient # NoClient /\ conn[nrClient] # "open"

\* C29: clear() leaves no record and an empty ordering list, and capturing as it
\* was; a lifecycle event handled right after it while capturing makes the one
\* record of its request, built from a new record, and the list of that id alone.
C29_ClearEmptiesRecords ==
  [][/\ netEv'.kind = "clear" =>
          /\ requests' = <<>> /\ order' = <<>>
          /\ capturing' = capturing
          /\ GetRequests(requests', order') = <<>>
     /\ (netEv.kind = "clear" /\ netEv'.kind = "event") =>
          LET p == NetEvents[netEv'.ev]
          IN IF capturing
               THEN /\ order' = <<p.requestId>>
                    /\ DOMAIN requests' = {p.requestId}
                    /\ requests'[p.requestId] = Merge(NewRecord(p.requestId), p)
               ELSE requests' = <<>> /\ order' = <<>>
  ]_vars

\* clear() has just emptied a capturing recorder that held both requests
C29_Witness ==
  /\ netEv.kind = "clear"
  /\ Len(netEv.before) = Cardinality(RequestIds)
  /\ capturing
  /\ requests = <<>> /\ order = <<>>

\* C30: the ordering list never holds an id twice and holds exactly the ids of
\* the record map; getRequests() lists the record of each id once, in the order
\* of the list, which is the order in which the ids were first seen: an event
\* for a new id puts its record last and moves no other, an event for a known id
\* moves none.
C30_RequestsOnceInFirstSeenOrder ==
  /\ [](LET out == GetRequests(requests, order)
        IN /\ \A i, j \in 1..Len(order) : order[i] = order[j] => i = j
           /\ {order[i] : i \in 1..Len(order)} = DOMAIN requests
           /\ Len(out) = Len(order)
           /\ \A i \in 1..Len(out) : out[i] = requests[order[i]] /\ out[i].requestId = order[i])
  /\ [][netEv'.kind = "event" =>
          LET id == NetEvents[netEv'.ev].requestId
              before == GetRequests(requests, order)
              after == GetRequests(requests', order')
          IN IF capturing /\ id \notin DOMAIN requests
               THEN /\ Len(after) = Len(before) + 1
                    /\ after[Len(after)].requestId = id
                    /\ \A i \in 1..Len(before) : after[i] = before[i]
               ELSE /\ Len(after) = Len(before)
                    /\ \A i \in 1..Len(before) : after[i].requestId = before[i].requestId]_vars

\* request 2 was seen before request 1, and a later event of a request already
\* recorded has been handled
C30_Witness ==
  /\ netEv.kind = "event" /\ netEv.capturing /\ netEv.known
  /\ order = <<2, 1>>
  /\ Len(GetRequests(requests, order)) = 2
  /\ GetRequests(requests, order)[1].requestId = 2

\* the getters `active` and `options` (<<>> stands for undefined)
Active == subscription # <<>>
Options == subscription

\* the options the specification expects for option object o
Expected(o) ==
  [levels |-> IF ~o.hasLevels \/ o.levels = <<>> THEN <<"log", "debug", "info", "warn", "error">>
              ELSE o.levels,
   includeExceptions |-> IF o.hasExc THEN o.exc ELSE TRUE,
   includeStack |-> IF o.hasStack THEN o.stack ELSE FALSE]

\* C31: `active` is false at first, becomes true when a subscribe() completes,
\* false when an unsubscribe() completes, and changes in no other step;
\* `options` is undefined exactly when inactive, is the normalized option object
\* of the subscribe() that completes, and changes in no other step.
C31_ActiveAndOptions ==
  /\ [](Active <=> Options # <<>>)
  /\ [](subsDone = 0 => ~Active)
  /\ [][/\ cmOutcome' = "sub_ok" =>
             \E t \in ConsoleTasks :
                /\ tpc[t] = "sub_enable" /\ tpc'[t] = "idle"
                /\ Active' /\ Options' = <<Expected(SubscribeInputs[topt[t]])>>
        /\ cmOutcome' = "unsub_ok" => ~Active' /\ Options' = <<>>
        /\ cmOutcome' \notin {"sub_ok", "unsub_ok"} => Options' = Options]_vars

\* a second subscribe() has completed and replaced the options of the first
\* by the defaults
C31_Witness ==
  /\ cmOutcome = "sub_ok" /\ subsDone = 2
  /\ Active
  /\ Options = <<[levels |-> DEFAULT_LEVELS, includeExceptions |-> TRUE, includeStack |-> FALSE]>>

\* the bucket and the severity the specification gives each console event type
LevelTable ==
  [assert |-> <<"error", "error">>, error |-> <<"error", "error">>,
   warning |-> <<"warn", "warning">>, debug |-> <<"debug", "debug">>,
   info |-> <<"info", "info">>, log |-> <<"log", "info">>, dir |-> <<"log", "info">>,
   startGroup |-> <<"log", "info">>, table |-> <<"log", "info">>,
   trace |-> <<"log", "info">>]

\* C32: the two mapping functions agree with the table on every type, and a
\* console event handled by an active subscription is notified exactly when the
\* table's bucket of its type is among the subscription's levels, at the
\* table's severity.
C32_TypeMapping ==
  /\ \A type \in ConsoleTypes :
        /\ mapConsoleTypeToStreamLevel(type) = LevelTable[type][1]
        /\ mapConsoleTypeToLoggingLevel(type) = LevelTable[type][2]
  /\ (lastEv.kind = "console" /\ lastEv.active /\ lastEv.listeners > 0) =>
        /\ sent # <<>> <=> Includes(subscription[1].levels, LevelTable[lastEv.type][1])
        /\ \A i \in 1..Len(sent) : sent[i].level = LevelTable[lastEv.type][2]

\* a console.table() call is notified at severity info to a subscription whose
\* levels are log and warn
C32_Witness ==
  /\ lastEv.kind = "console" /\ lastEv.type = "table" /\ lastEv.active
  /\ subscription[1].levels = <<"log", "warn">>
  /\ Len(sent) = 1 /\ sent[1].level = "info"

\* C33: the entry of an event with a finite timestamp above 1e12 carries it
\* unchanged as epoch milliseconds; with any other finite timestamp, above 1e6
\* or not, it carries the timestamp multiplied by 1000.
C33_TimestampNormalization ==
  (lastEv.kind = "entry" /\ lastEv.value.finite) =>
     LET v == lastEv.value
     IN lastEv.timestamp = IF Above(v, 12) THEN DateOf(v.m, v.e) ELSE DateOf(v.m, v.e + 3)

\* C34: the session never keeps a rejected attempt as its pending attempt, so
\* no call fails on an attempt that had failed before the call was made: a call
\* made with no connection either joins an attempt still in progress or starts
\* a new one.
C34_FailedAttemptNotRetained ==
  /\ [](clientPromise # NoClient => attempt[clientPromise] # "rejected")
  /\ [][\A p \in Callers, op \in {"connect", "evaluate", "captureScreenshot"} :
          (CallStart(p, op) /\ client = NoClient) =>
             /\ cpc'[p] = "await"
             /\ attempt'[cwait'[p]] = "cdp" \/ Pending(cwait'[p])]_vars

\* connection c is neither the session's connection nor that of its pending attempt
Replaced(c) == client # c /\ clientPromise # c

\* C35: the disconnect event of a connection the session has replaced leaves
\* the session's connection reference, its pending attempt and its log entries
\* as they are.
C35_StaleDisconnectIgnored ==
  [][\A c \in Conns :
       (Disconnect(c) /\ Replaced(c) /\ (client # NoClient \/ clientPromise # NoClient)) =>
          /\ client' = client
          /\ clientPromise' = clientPromise
          /\ entries' = entries /\ nextId' = nextId]_vars

\* C36: when a connection attempt settles that dispose() dropped from the
\* session while it was in flight (no connection has been lost, so only
\* dispose() can have dropped it), its connection does not become the session's
\* connection and is not left open.
C36_DisposedAttemptNotResurrected ==
  [][\A a \in Conns :
       (/\ ConnectDone(a)
        /\ clientPromise # a
        /\ \A c \in Conns : conn[c] # "lost") =>
          /\ client' # a
          /\ conn'[a] # "open"]_vars

\* C37: once every highlight(), hide() and timer callback has completed, an
\* overlay with a pending timer or a decorated node still shows the remote
\* highlight, on the decorated node if there is one: no hide() that was in
\* progress when the highlight() was called has removed it.
C37_StaleHideKeepsHighlight ==
  (/\ \A t \in OverlayTasks : opc[t] = "idle"
   /\ timer # 0 \/ decoratedNodes # {}) =>
     /\ rHighlight # 0
     /\ decoratedNodes \subseteq {rHighlight}

\* C38: a console or exception event of the connection on which the latest
\* subscribe() completed, pushed while that subscription is active, reaches
\* exactly one listener of the manager, whatever happened to earlier
\* connections, and yields at most one notification.
C38_ResubscribeRebinds ==
  (/\ lastEv.kind \in {"console", "exception"}
   /\ lastEv.active
   /\ cmClient = lastEv.conn) =>
     /\ lastEv.listeners = 1
     /\ Len(sent) <= 1

\* C39: no connection ever carries the recorder's listeners more than once,
\* however its calls overlap, and an event pushed on the connection that carries
\* them changes the records as one listener call does.
C39_ListenersAttachedOnce ==
  /\ [](\A c \in Conns : attachedN[c] <= 1)
  /\ [][netEv'.kind = "event" =>
          [requests |-> requests', order |-> order'] =
             HandleEvent(capturing, [requests |-> requests, order |-> order],
                         NetEvents[netEv'.ev])]_vars

\* two first calls that awaited the same connection attempt have both gone
\* through #getClient, and the connection carries the listeners once
C39_Witness ==
  /\ \A t \in NetTasks : npc[t] = "n_command" /\ ncl[t] = nrClient
  /\ nrAttached
  /\ attachedN[nrClient] = 1

\* C40 as stated: while a subscription is active, an upstream exception event
\* yields exactly one notification, at severity error, if the subscription
\* includes exceptions, and none otherwise, whatever its levels are.
C40_ExceptionsBypassLevels ==
  (lastEv.kind = "exception" /\ lastEv.active) =>
     IF subscription[1].includeExceptions
       THEN Len(sent) = 1 /\ sent[1].level = "error"
       ELSE sent = <<>>
====
